---- MODULE Spec2Model ----
(***************************************************************************)
(* Model of the SundaeSwap v3 scooper/indexer.                             *)
(*                                                                         *)
(*   Part F  HistoricalState<T>   (src/src/historical_state.rs)            *)
(*   Part E  ScoopBuilder         (src/src/sundaev3/builder.rs)            *)
(*   Part V  Value                (src/src/cardano_types.rs)               *)
(*   Part D  validate_order_value (src/src/sundaev3/validation.rs)         *)
(*   Part C  SundaeV3Indexer      (src/src/sundaev3/indexer.rs)            *)
(*                                                                         *)
(* Each part has its own specification (SpecHist, SpecBuilder, SpecValue,  *)
(* SpecOrderValue, SpecIndexer); the variables of the other parts stay at  *)
(* their initial value.                                                    *)
(***************************************************************************)
EXTENDS Integers, Sequences, FiniteSets, TLC

VARIABLES
    slots,      \* HistoricalState.slots : BTreeMap<u64, T>
    handle,     \* slot of the live &mut T returned by update_slot, or NoHandle
    hlast,      \* the last HistoricalState operation: name, argument, result, state before
    written     \* history variable: slot -> snapshot it held when last written

histVars == <<slots, handle, hlast, written>>

VARIABLES
    builder,    \* the ScoopBuilder: pool, value, expected_size, actual_size, settings
    blast,      \* the last apply_order call: the order, its result, the builder before
    accepted,   \* history variable: number of apply_order calls that returned Ok
    validated   \* what validate() returned, once it was called

builderVars == <<builder, blast, accepted, validated>>

VARIABLES
    val,        \* a Value: policy -> token -> amount
    vlast       \* the last Value operation: name, asset class, quantity, value before

valueVars == <<val, vlast>>

VARIABLES
    vov         \* the last validate_order_value call: the datum, the value, the result

validationVars == <<vov>>

VARIABLES
    history,    \* SundaeV3Indexer.state: HistoricalState<SundaeV3State>, slot -> snapshot
    dao,        \* the rows of sundae_v3_txos: txo id -> row
    update,     \* the value the broadcaster holds: the last SundaeV3Update sent
    published,  \* history variable: number of updates sent so far
    txs,        \* number of transactions handed to the indexer so far
    rollbacks,  \* number of rollbacks handed to the indexer so far
    ilast       \* the last indexer call: name, input, result, effects in order, state before

indexerVars == <<history, dao, update, published, txs, rollbacks, ilast>>

VARIABLES
    pc,         \* where handle_onchain_tx_bytes stands: the statement it runs next
    inflight,   \* the transaction being reduced and the locals of the handler
    reader,     \* a reader of the shared HistoricalState: "out" or "locked"
    observed    \* what the reader got from latest() the last time it held the lock

lockVars == <<pc, inflight, reader, observed>>

VARIABLES
    at,         \* where Scooper::run stands: "changed", "sleep" or "borrow"
    seen,       \* the version of the watch channel its Receiver has marked as seen
    processed   \* the last update handed to log_changes: its version, and how many it skipped

scooperVars == <<at, seen, processed>>

VARIABLES
    sundae_v3_txos, \* the table sundae_v3_txos: (tx_id, txo_index) -> row
    sundae_datums,  \* the table sundae_datums: hash -> row
    pruned_txos,    \* history variable: the rows prune_txos deleted and nothing inserted since
    persisted_datums,   \* history variable: the datums the transactions still on the chain persisted
    calls,          \* number of calls made to the DAO so far
    dlast           \* the last call to the DAO: name, arguments, result, tables before

daoVars == <<sundae_v3_txos, sundae_datums, pruned_txos, persisted_datums, calls, dlast>>

VARIABLES
    acropolis_cursors,  \* the table acropolis_cursors: id -> bytes
    csaved,             \* the last call of save: its entries, its result, the ids it removed,
                        \* whether it left the table as it was
    cloaded             \* the load made since the last save, if any: its result

cursorVars == <<acropolis_cursors, csaved, cloaded>>

VARIABLES
    scooper_pools,  \* Scooper.pools: the pool summaries reported so far, by ident
    scooper_orders, \* Scooper.orders: the order validities reported so far, by input
    logged          \* the last pass of log_changes: its snapshot, what was reported
                    \* before it, the updates it wrote

logVars == <<scooper_pools, scooper_orders, logged>>

vars == <<histVars, builderVars, valueVars, validationVars, indexerVars, lockVars, scooperVars, daoVars, cursorVars, logVars>>

\* what an operation of one part leaves alone: the variables of the other parts
histRest == <<builderVars, valueVars, validationVars, indexerVars, lockVars, scooperVars, daoVars, cursorVars, logVars>>

builderRest == <<histVars, valueVars, validationVars, indexerVars, lockVars, scooperVars, daoVars, cursorVars, logVars>>

valueRest == <<histVars, builderVars, validationVars, indexerVars, lockVars, scooperVars, daoVars, cursorVars, logVars>>

validationRest == <<histVars, builderVars, valueVars, indexerVars, lockVars, scooperVars, daoVars, cursorVars, logVars>>

indexerRest == <<histVars, builderVars, valueVars, validationVars, lockVars, scooperVars, daoVars, cursorVars, logVars>>

lockRest == <<histVars, builderVars, valueVars, validationVars, scooperVars, daoVars, cursorVars, logVars>>

scooperRest == <<histVars, builderVars, valueVars, validationVars, indexerVars, lockVars, daoVars, cursorVars, logVars>>

daoRest == <<histVars, builderVars, valueVars, validationVars, indexerVars, lockVars, scooperVars, cursorVars, logVars>>

cursorRest == <<histVars, builderVars, valueVars, validationVars, indexerVars, lockVars, scooperVars, daoVars, logVars>>

(***************************************************************************)
(* Bounds                                                                  *)
(***************************************************************************)
MaxSlot == 2        \* slots are 0..MaxSlot
MaxLen == 2         \* a snapshot (Vec<u8>) holds at most MaxLen bytes
MaxAmount == 3      \* amounts named by orders are at most MaxAmount
MaxReserve == 4     \* a pool starts with 1..MaxReserve of each asset
MaxQuantity == 2    \* a Value holds -MaxQuantity..MaxQuantity of an asset class
MaxFee == 1         \* an order datum names a scoop_fee of 0..MaxFee
MaxTxs == 3         \* the indexer is handed at most MaxTxs transactions
MaxRollbacks == 1   \* the indexer is handed at most MaxRollbacks rollbacks
MaxPublished == 4   \* the indexer publishes at most MaxPublished updates to the scoop-log consumer
MaxTxos == 2        \* the DAO is handed the TXOs 1..MaxTxos and the datum hashes 1..MaxTxos
MaxCalls == 4       \* the DAO is called at most MaxCalls times

Slots == 0..MaxSlot

(***************************************************************************)
(* Ordered maps (BTreeMap) as functions on a finite set of keys            *)
(***************************************************************************)
EmptyMap == [k \in {} |-> 0]

MaxOf(S) == CHOOSE k \in S : \A j \in S : j <= k

MinOf(S) == CHOOSE k \in S : \A j \in S : k <= j

Without(m, k) == [j \in DOMAIN m \ {k} |-> m[j]]

(***************************************************************************)
(* Part F: HistoricalState<T> with T = Vec<u8> (as in the unit tests)      *)
(***************************************************************************)
NoHandle == -1

\* T::default()
DefaultT == << >>

\* HistoricalState::new
new == EmptyMap

\* HistoricalState::latest
latest(sl) ==
    IF DOMAIN sl = {} THEN DefaultT ELSE sl[MaxOf(DOMAIN sl)]

\* mutant: the out-of-order check is missing, the slot is inserted anyway
update_slot_no_check(sl, slot) ==
    IF DOMAIN sl = {}
    THEN [ok |-> TRUE, slots |-> (slot :> DefaultT)]
    ELSE LET below == {k \in DOMAIN sl : k < slot}
             last_entry == IF below = {} THEN DefaultT ELSE sl[MaxOf(below)]
         IN  [ok |-> TRUE, slots |-> sl @@ (slot :> last_entry)]

\* mutant: a new slot starts from the default snapshot instead of a clone
update_slot_no_clone(sl, slot) ==
    IF DOMAIN sl = {}
    THEN [ok |-> TRUE, slots |-> (slot :> DefaultT)]
    ELSE LET latest_slot == MaxOf(DOMAIN sl) IN
         IF latest_slot > slot THEN [ok |-> FALSE, slots |-> sl]
         ELSE IF latest_slot = slot THEN [ok |-> TRUE, slots |-> sl]
         ELSE [ok |-> TRUE, slots |-> sl @@ (slot :> DefaultT)]

\* mutant: updating the latest slot again re-clones the previous slot over it
update_slot_reclone(sl, slot) ==
    IF DOMAIN sl = {}
    THEN [ok |-> TRUE, slots |-> (slot :> DefaultT)]
    ELSE LET latest_slot == MaxOf(DOMAIN sl) IN
         IF latest_slot > slot THEN [ok |-> FALSE, slots |-> sl]
         ELSE LET below == {k \in DOMAIN sl : k < slot}
                  last_entry == IF below = {} THEN DefaultT ELSE sl[MaxOf(below)]
              IN  [ok |-> TRUE, slots |-> (slot :> last_entry) @@ sl]

\* HistoricalState::update_slot: the map afterwards and whether it returned Ok
\* (the handle returned refers to the entry at `slot`)
update_slot(sl, slot) ==
    IF DOMAIN sl = {}
    THEN [ok |-> TRUE, slots |-> (slot :> DefaultT)]
    ELSE LET latest_slot == MaxOf(DOMAIN sl) IN
         IF latest_slot > slot THEN [ok |-> FALSE, slots |-> sl]
         ELSE IF latest_slot = slot THEN [ok |-> TRUE, slots |-> sl]
         ELSE LET below == {k \in DOMAIN sl : k < slot}
                  last_entry == IF below = {} THEN DefaultT ELSE sl[MaxOf(below)]
              IN  [ok |-> TRUE, slots |-> sl @@ (slot :> last_entry)]

RECURSIVE prune_loop(_, _, _)
prune_loop(sl, rollback_limit, pruned) ==
    IF Cardinality(DOMAIN sl) > rollback_limit
    THEN prune_loop(Without(sl, MinOf(DOMAIN sl)), rollback_limit, TRUE)
    ELSE [slots |-> sl, pruned |-> pruned]

\* mutant: the loop pops the newest entry (pop_last) instead of the oldest
RECURSIVE prune_loop_last(_, _, _)
prune_loop_last(sl, rollback_limit, pruned) ==
    IF Cardinality(DOMAIN sl) > rollback_limit
    THEN prune_loop_last(Without(sl, MaxOf(DOMAIN sl)), rollback_limit, TRUE)
    ELSE [slots |-> sl, pruned |-> pruned]

prune_history_pop_last(sl, rollback_limit) == prune_loop_last(sl, rollback_limit, FALSE)

\* mutant: the loop leaves one entry more than rollback_limit
prune_history_one_more(sl, rollback_limit) == prune_loop(sl, rollback_limit + 1, FALSE)

\* HistoricalState::prune_history
prune_history(sl, rollback_limit) == prune_loop(sl, rollback_limit, FALSE)

RECURSIVE rollback_loop(_, _, _)
rollback_loop(sl, slot, rolled_back) ==
    IF DOMAIN sl # {} /\ MaxOf(DOMAIN sl) > slot
    THEN LET s == MaxOf(DOMAIN sl) IN
         rollback_loop(Without(sl, s), slot, Append(rolled_back, <<s, sl[s]>>))
    ELSE [slots |-> sl, rolled_back |-> rolled_back]

\* mutant: the loop also pops the entry at `slot` itself (>= instead of >)
RECURSIVE rollback_loop_ge(_, _, _)
rollback_loop_ge(sl, slot, rolled_back) ==
    IF DOMAIN sl # {} /\ MaxOf(DOMAIN sl) >= slot
    THEN LET s == MaxOf(DOMAIN sl) IN
         rollback_loop_ge(Without(sl, s), slot, Append(rolled_back, <<s, sl[s]>>))
    ELSE [slots |-> sl, rolled_back |-> rolled_back]

rollback_to_slot_ge(sl, slot) == rollback_loop_ge(sl, slot, << >>)

\* HistoricalState::rollback_to_slot
rollback_to_slot(sl, slot) == rollback_loop(sl, slot, << >>)

\* mutant: the snapshots survive a rollback to the origin
rollback_to_origin_keep(sl) == sl

\* HistoricalState::rollback_to_origin
rollback_to_origin(sl) == EmptyMap

HLast(op, arg, ret) == [op |-> op, arg |-> arg, ret |-> ret, pre |-> slots]

\* HistoricalState::new(): an empty history
HistNew ==
    /\ slots = new
    /\ handle = NoHandle
    /\ hlast = [op |-> "new", arg |-> 0, ret |-> "none", pre |-> EmptyMap]
    /\ written = EmptyMap

\* no scoop is being replayed
NoBuilder == [expected_size |-> 0, actual_size |-> 0]

NoApply == [order |-> [action |-> "none"], res |-> "none", pre |-> NoBuilder, own |-> EmptyMap]

NotValidated == [res |-> "none", expected |-> 0, actual |-> 0]

BuilderIdle ==
    /\ builder = NoBuilder
    /\ blast = NoApply
    /\ accepted = 0
    /\ validated = NotValidated

\* no Value operation was called yet
NoValueOp == [op |-> "none", asset_class |-> [policy |-> "", token |-> ""], quantity |-> 0,
              pre |-> EmptyMap]

ValueIdle ==
    /\ val = EmptyMap
    /\ vlast = NoValueOp

\* validate_order_value was not called yet
NoValidation ==
    [datum |-> [scoop_fee |-> 0, action |-> [action |-> "none"]], value |-> EmptyMap,
     ret |-> [res |-> "none"]]

ValidationIdle == vov = NoValidation

\* SundaeV3State::default(): no pools, no orders, no settings (an Option is a
\* sequence of at most one element)
DefaultState == [pools |-> EmptyMap, orders |-> << >>, settings |-> << >>]

\* SundaeV3Update::default()
DefaultUpdate == [slot |-> 0, state |-> DefaultState]

\* no indexer call was made yet
NoIndexerOp ==
    [op |-> "none", ret |-> "none", slot |-> 0, trace |-> << >>, scheduled |-> << >>,
     executed |-> << >>, changes |-> << >>, tx |-> << >>, pre |-> EmptyMap,
     pre_dao |-> EmptyMap, pre_published |-> 0]

\* SundaeV3Indexer::new over an empty history and an empty database
IndexerNew ==
    /\ history = EmptyMap
    /\ dao = EmptyMap
    /\ update = DefaultUpdate
    /\ published = 0
    /\ txs = 0
    /\ rollbacks = 0
    /\ ilast = NoIndexerOp

\* no transaction was handed over yet
NoTx ==
    [info |-> [slot |-> 0, number |-> 0], tx |-> << >>, hash |-> 0, spent_inputs |-> << >>,
     before |-> DefaultState, reduced |-> << >>]

\* the reader read nothing yet under the lock it holds
NoObservation == [read |-> FALSE, state |-> DefaultState]

\* the handler is not running and no reader holds the mutex
LockIdle ==
    /\ pc = "idle"
    /\ inflight = NoTx
    /\ reader = "out"
    /\ observed = NoObservation

\* log_changes was not called yet
NoneProcessed == [version |-> 0, skipped |-> 0, slot |-> 0]

\* Scooper::new over a Receiver that has seen the initial value of the channel
ScooperIdle ==
    /\ at = "changed"
    /\ seen = 0
    /\ processed = NoneProcessed

\* SundaeV3TxChanges::new(0, 0)
NoChanges ==
    [slot |-> 0, height |-> 0, created_txos |-> << >>, spent_txos |-> << >>,
     metadata_datums |-> << >>]

\* no call was made to the DAO yet
NoDaoOp ==
    [op |-> "none", ret |-> "none", changes |-> NoChanges, arg |-> 0, fault |-> "none",
     pre_txos |-> EmptyMap, pre_datums |-> EmptyMap]

\* the tables after the migrations ran on an empty database
DaoNew ==
    /\ sundae_v3_txos = EmptyMap
    /\ sundae_datums = EmptyMap
    /\ pruned_txos = {}
    /\ persisted_datums = {}
    /\ calls = 0
    /\ dlast = NoDaoOp

\* log_changes was not called yet
NoPass ==
    [passes |-> 0, again |-> FALSE, state |-> DefaultState, pre_pools |-> EmptyMap, pre_orders |-> EmptyMap,
     order_updates |-> << >>, pool_updates |-> << >>]

\* Scooper::new: nothing was reported yet
LogNew ==
    /\ scooper_pools = EmptyMap
    /\ scooper_orders = EmptyMap
    /\ logged = NoPass

\* the mapping without cursors: HashMap::new()
NoCursors == [id \in {} |-> << >>]

\* save was not called yet
NoSave ==
    [op |-> "none", ret |-> "none", entries |-> NoCursors, failed |-> {}, removed |-> {},
     kept |-> TRUE]

\* load was not called since the last save
NoLoad == [done |-> FALSE, ret |-> "none", entries |-> NoCursors]

\* the table acropolis_cursors after the migrations ran on an empty database
CursorNew ==
    /\ acropolis_cursors = NoCursors
    /\ csaved = NoSave
    /\ cloaded = NoLoad

InitHist == HistNew /\ BuilderIdle /\ ValueIdle /\ ValidationIdle /\ IndexerNew /\ LockIdle /\ ScooperIdle /\ DaoNew /\ CursorNew /\ LogNew

\* history.update_slot(slot)
UpdateSlot(slot) ==
    LET r == update_slot(slots, slot) IN
    /\ slots' = r.slots
    /\ handle' = IF r.ok THEN slot ELSE NoHandle
    /\ hlast' = HLast("update_slot", slot, IF r.ok THEN "Ok" ELSE "Err")
    /\ written' = IF r.ok THEN (slot :> r.slots[slot]) @@ written ELSE written
    /\ UNCHANGED histRest

\* the byte the caller pushes while it works on `slot` (the unit tests push 1
\* at slot 0 and 2 at slot 1)
ByteOf(slot) == slot + 1

\* a mutation through the handle update_slot returned: state.push(b)
Mutate ==
    /\ handle # NoHandle
    /\ Len(slots[handle]) < MaxLen
    /\ slots' = [slots EXCEPT ![handle] = Append(@, ByteOf(handle))]
    /\ hlast' = HLast("mutate", handle, "none")
    /\ written' = [written EXCEPT ![handle] = Append(slots[handle], ByteOf(handle))]
    /\ UNCHANGED handle
    /\ UNCHANGED histRest

\* history.prune_history(rollback_limit)
PruneHistory(rollback_limit) ==
    LET r == prune_history(slots, rollback_limit) IN
    /\ slots' = r.slots
    /\ handle' = NoHandle
    /\ hlast' = HLast("prune_history", rollback_limit, IF r.pruned THEN "true" ELSE "false")
    /\ UNCHANGED written
    /\ UNCHANGED histRest

\* history.rollback_to_slot(slot); the rolled back slots are undone
RollbackToSlot(slot) ==
    LET r == rollback_to_slot(slots, slot) IN
    /\ slots' = r.slots
    /\ handle' = NoHandle
    /\ hlast' = HLast("rollback_to_slot", slot, "none")
    /\ written' = [k \in {j \in DOMAIN written : j <= slot} |-> written[k]]
    /\ UNCHANGED histRest

\* history.rollback_to_origin()
RollbackToOrigin ==
    /\ slots' = rollback_to_origin(slots)
    /\ handle' = NoHandle
    /\ hlast' = HLast("rollback_to_origin", 0, "none")
    /\ written' = EmptyMap
    /\ UNCHANGED histRest

NextHist ==
    \/ \E slot \in Slots : UpdateSlot(slot)
    \/ Mutate
    \/ \E rollback_limit \in 0..MaxSlot : PruneHistory(rollback_limit)
    \/ \E slot \in Slots : RollbackToSlot(slot)
    \/ RollbackToOrigin

SpecHist == InitHist /\ [][NextHist]_vars

(***************************************************************************)
(* Part F: claims                                                          *)
(***************************************************************************)
\* the slots of the map before the last operation that are <= s
KeptUpTo(s) == {k \in DOMAIN hlast.pre : k <= s}

\* C1 (as stated): after rollback_to_slot(s) no stored slot is greater than s
\* and latest() is the snapshot that the highest slot k <= s ever updated (and
\* not rolled back) held when it was last written, the default snapshot if no
\* slot <= s was updated; prune_history calls may have happened in between.
C1_Original ==
    hlast.op = "rollback_to_slot" =>
        LET K == {k \in DOMAIN written : k <= hlast.arg} IN
        /\ \A k \in DOMAIN slots : k <= hlast.arg
        /\ latest(slots) = IF K = {} THEN DefaultT ELSE written[MaxOf(K)]

\* C1 (amended): after rollback_to_slot(s) no stored slot is greater than s,
\* the entries at slots <= s are exactly those stored before the call, and
\* latest() is the snapshot that the highest slot k <= s still stored (not
\* pruned) held when it was last written; it is the default snapshot when no
\* slot <= s is stored any more.
C1_Rollback ==
    hlast.op = "rollback_to_slot" =>
        LET K == KeptUpTo(hlast.arg) IN
        /\ \A k \in DOMAIN slots : k <= hlast.arg
        /\ DOMAIN slots = K
        /\ \A k \in K : slots[k] = written[k]
        /\ latest(slots) = IF K = {} THEN DefaultT ELSE written[MaxOf(K)]

\* a rollback that removed a slot and uncovered an earlier, non-empty snapshot
C1_Witness ==
    /\ hlast.op = "rollback_to_slot"
    /\ \E k \in DOMAIN hlast.pre : k > hlast.arg
    /\ DOMAIN slots # {}
    /\ latest(slots) # DefaultT
    /\ latest(slots) # latest(hlast.pre)

\* C2: update_slot(s) returns an error whenever the highest stored slot is
\* greater than s, and then the stored slots and snapshots are unchanged.
C2_OutOfOrderUpdate ==
    (/\ hlast.op = "update_slot"
     /\ DOMAIN hlast.pre # {}
     /\ MaxOf(DOMAIN hlast.pre) > hlast.arg) =>
        /\ hlast.ret = "Err"
        /\ slots = hlast.pre

\* an update of a slot below the highest stored one, with snapshots to lose
C2_Witness ==
    /\ hlast.op = "update_slot"
    /\ hlast.ret = "Err"
    /\ Cardinality(DOMAIN slots) >= 2
    /\ hlast.arg \notin DOMAIN slots
    /\ hlast.arg > MinOf(DOMAIN slots)

\* C3: when s is greater than every stored slot, update_slot(s) inserts a
\* snapshot at s that equals the previous latest snapshot and s becomes the
\* latest slot; a mutation through the returned handle changes the snapshot
\* at s only.
C3_NewSlotClones ==
    /\ (/\ hlast.op = "update_slot"
        /\ \A k \in DOMAIN hlast.pre : k < hlast.arg) =>
            /\ hlast.ret = "Ok"
            /\ DOMAIN slots = DOMAIN hlast.pre \cup {hlast.arg}
            /\ slots[hlast.arg] = latest(hlast.pre)
            /\ MaxOf(DOMAIN slots) = hlast.arg
            /\ latest(slots) = slots[hlast.arg]
            /\ \A k \in DOMAIN hlast.pre : slots[k] = hlast.pre[k]
    /\ hlast.op = "mutate" =>
            /\ DOMAIN slots = DOMAIN hlast.pre
            /\ slots[hlast.arg] # hlast.pre[hlast.arg]
            /\ \A k \in DOMAIN slots \ {hlast.arg} : slots[k] = hlast.pre[k]

\* a slot cloned from a non-empty predecessor was mutated and now differs from it
C3_Witness ==
    /\ hlast.op = "mutate"
    /\ \E k \in DOMAIN slots :
          /\ k < hlast.arg
          /\ slots[k] # DefaultT
          /\ hlast.pre[hlast.arg] = slots[k]
          /\ slots[hlast.arg] # slots[k]

\* C4: update_slot(s) with s the highest stored slot adds no entry and hands
\* out the existing snapshot for s, with everything written to it so far.
C4_SameSlotKeepsSnapshot ==
    (/\ hlast.op = "update_slot"
     /\ DOMAIN hlast.pre # {}
     /\ MaxOf(DOMAIN hlast.pre) = hlast.arg) =>
        /\ hlast.ret = "Ok"
        /\ handle = hlast.arg
        /\ slots = hlast.pre
        /\ slots[handle] = written[handle]

\* the latest slot is updated again and its snapshot has diverged from the
\* slot below it
C4_Witness ==
    /\ hlast.op = "update_slot"
    /\ hlast.arg \in DOMAIN hlast.pre
    /\ MaxOf(DOMAIN hlast.pre) = hlast.arg
    /\ \E k \in DOMAIN slots : k < hlast.arg /\ slots[k] # slots[hlast.arg]

\* the n highest keys of a map
Highest(m, n) == {k \in DOMAIN m : Cardinality({j \in DOMAIN m : j > k}) < n}

\* C5: prune_history(N) removes only the lowest slots until at most N remain:
\* the min(count, N) highest slots and their snapshots stay, and it returns
\* true exactly when an entry was removed.
C5_PruneKeepsHighest ==
    hlast.op = "prune_history" =>
        /\ DOMAIN slots = Highest(hlast.pre, hlast.arg)
        /\ Cardinality(DOMAIN slots) <= hlast.arg
        /\ \A k \in DOMAIN slots : slots[k] = hlast.pre[k]
        /\ (hlast.ret = "true") = (DOMAIN slots # DOMAIN hlast.pre)

\* a prune that removed two entries and kept one
C5_Witness ==
    /\ hlast.op = "prune_history"
    /\ hlast.ret = "true"
    /\ DOMAIN slots # {}
    /\ Cardinality(DOMAIN hlast.pre) >= Cardinality(DOMAIN slots) + 2

(***************************************************************************)
(* BigInt (num_bigint): division truncates toward zero and panics on a     *)
(* zero divisor; callers below test the divisor before dividing            *)
(***************************************************************************)
Abs(x) == IF x < 0 THEN -x ELSE x

Div(a, b) ==
    LET q == Abs(a) \div Abs(b) IN
    IF (a < 0) # (b < 0) THEN -q ELSE q

Min(a, b) == IF a <= b THEN a ELSE b

(***************************************************************************)
(* Asset classes and Value (src/src/cardano_types.rs)                      *)
(***************************************************************************)
AssetClass(policy, token) == [policy |-> policy, token |-> token]

ADA_ASSET_CLASS == AssetClass("", "")

\* two tokens of one policy, the LP token of the pool, and a token of no pool
RBERRY == AssetClass("berry", "r")

SBERRY == AssetClass("berry", "s")

LP == AssetClass("lp", "lp")

TINDY == AssetClass("tindy", "t")

AssetClasses == {ADA_ASSET_CLASS, RBERRY, SBERRY, LP, TINDY}

\* Value::new
value_new == EmptyMap

\* Value::get
get(v, asset_class) ==
    IF asset_class.policy \in DOMAIN v /\ asset_class.token \in DOMAIN v[asset_class.policy]
    THEN v[asset_class.policy][asset_class.token]
    ELSE 0

\* mutant: the token is removed but a policy left without tokens stays
delete_keep_policy(v, asset_class) ==
    IF asset_class.policy \notin DOMAIN v THEN v
    ELSE [v EXCEPT ![asset_class.policy] = Without(@, asset_class.token)]

\* Value::delete
delete(v, asset_class) ==
    IF asset_class.policy \notin DOMAIN v THEN v
    ELSE LET tokens == Without(v[asset_class.policy], asset_class.token) IN
         IF DOMAIN tokens = {}
         THEN Without(v, asset_class.policy)
         ELSE [v EXCEPT ![asset_class.policy] = tokens]

\* Value::insert
insert(v, asset_class, quantity) ==
    IF quantity = 0 THEN delete(v, asset_class)
    ELSE IF asset_class.policy \in DOMAIN v
         THEN [v EXCEPT ![asset_class.policy] = (asset_class.token :> quantity) @@ @]
         ELSE (asset_class.policy :> (asset_class.token :> quantity)) @@ v

\* Value::add
add(v, asset_class, quantity) == insert(v, asset_class, get(v, asset_class) + quantity)

\* Value::subtract
subtract(v, asset_class, quantity) == insert(v, asset_class, get(v, asset_class) - quantity)

(***************************************************************************)
(* Part E: ScoopBuilder (src/src/sundaev3/builder.rs)                      *)
(***************************************************************************)
SingletonValue(class, amount) == [asset_class |-> class, amount |-> amount]

\* ADA_RIDER, the ada every order UTxO carries on top of what it offers
ADA_RIDER == 2000000

\* the denominator of bid_fees_per_10_thousand / ask_fees_per_10_thousand
TEN_THOUSAND == 10000

\* ScoopBuilder::new
ScoopBuilder_new(pool, settings, size) ==
    [pool |-> pool.pool_datum, value |-> pool.value,
     expected_size |-> size, actual_size |-> 0, settings |-> settings]

\* ScoopBuilder::pool_values
pool_values(b) ==
    LET asset_value(asset) ==
            IF asset = ADA_ASSET_CLASS
            THEN get(b.value, asset) - b.pool.protocol_fees
            ELSE get(b.value, asset)
    IN  <<asset_value(b.pool.assets[1]), asset_value(b.pool.assets[2])>>

\* mutant: the base fee is amortised rounding down
simple_fee_floor(b) ==
    Div(b.settings.base_fee, b.expected_size) + b.settings.simple_fee

\* ScoopBuilder::simple_fee (expected_size >= 1 in every builder of the model)
simple_fee(b) ==
    LET size == b.expected_size
        amortized_base_fee == Div(b.settings.base_fee + size - 1, size)
    IN  amortized_base_fee + b.settings.simple_fee

\* is_efficient divides by takes_less_den and takes_den: it panics when either is 0
is_efficient_panics(pool_takes, pool_gives, order_give, diff) ==
    \/ (pool_gives * TEN_THOUSAND) + (order_give * diff) - diff = 0
    \/ (pool_gives * TEN_THOUSAND) + (order_give * diff) = 0

\* is_efficient
is_efficient(pool_takes, pool_gives, order_give, diff) ==
    LET takes_less_num == (pool_takes * diff * order_give) - (pool_takes * diff)
        takes_less_den == (pool_gives * TEN_THOUSAND) + (order_give * diff) - diff
        takes_less == Div(takes_less_num, takes_less_den)
        takes_num == pool_takes * diff * order_give
        takes_den == (pool_gives * TEN_THOUSAND) + (order_give * diff)
        takes == Div(takes_num, takes_den)
    IN  takes_less < takes

\* the outcome of apply_order: the result, the builder afterwards, and the
\* amounts the order itself moved (the fee share apart)
Outcome(res, b, own) == [res |-> res, b |-> b, own |-> own]

\* "apply the fee share": protocol_fees += fee; value.add(ada, fee)
add_fee(b, fee) ==
    [b EXCEPT !.pool.protocol_fees = @ + fee,
              !.value = add(@, ADA_ASSET_CLASS, fee)]

\* apply_order, Order::Swap(given, taken); b already counts the order
apply_swap(b, order) ==
    LET given == order.given
        taken == order.taken
        pv == pool_values(b)
        a_to_b == given.asset_class = b.pool.assets[1]
        b_to_a == given.asset_class = b.pool.assets[2]
        pool_gives == IF a_to_b THEN pv[1] ELSE pv[2]
        pool_takes == IF a_to_b THEN pv[2] ELSE pv[1]
        charge_per_10k == IF a_to_b THEN b.pool.bid_fees_per_10_thousand
                                    ELSE b.pool.ask_fees_per_10_thousand
        diff == TEN_THOUSAND - charge_per_10k
        takes_num == pool_takes * given.amount * diff
        takes_den == (pool_gives * TEN_THOUSAND) + (given.amount * diff)
    IN
    IF ~a_to_b /\ ~b_to_a THEN Outcome("CoinPairMismatch", b, value_new)
    ELSE IF takes_den = 0 THEN Outcome("Panic", b, value_new)
    ELSE
    LET takes == Div(takes_num, takes_den)
        order_give_den == (pool_takes - takes) * diff
    IN
    IF order_give_den = 0 THEN Outcome("Panic", b, value_new)
    ELSE
    LET order_give_0 == Div(takes * pool_gives * TEN_THOUSAND, order_give_den)
        order_give_plus_1 == order_give_0 + 1
        order_give_minus_1 == order_give_0 - 1
        applied(order_give) ==
            LET v1 == add(b.value, given.asset_class, order_give)
                v2 == subtract(v1, taken.asset_class, takes)
                b2 == [b EXCEPT !.value = v2]
            IN  Outcome("Ok", add_fee(b2, simple_fee(b2)),
                        subtract(add(value_new, given.asset_class, order_give),
                                 taken.asset_class, takes))
    IN
    IF is_efficient_panics(pool_takes, pool_gives, order_give_plus_1, diff)
    THEN Outcome("Panic", b, value_new)
    ELSE IF /\ is_efficient(pool_takes, pool_gives, order_give_plus_1, diff)
            /\ order_give_plus_1 <= given.amount
    THEN applied(order_give_plus_1)
    ELSE IF is_efficient_panics(pool_takes, pool_gives, order_give_0, diff)
    THEN Outcome("Panic", b, value_new)
    ELSE IF is_efficient(pool_takes, pool_gives, order_give_0, diff)
    THEN applied(order_give_0)
    ELSE IF is_efficient_panics(pool_takes, pool_gives, order_give_minus_1, diff)
    THEN Outcome("Panic", b, value_new)
    ELSE IF is_efficient(pool_takes, pool_gives, order_give_minus_1, diff)
    THEN applied(order_give_minus_1)
    ELSE Outcome("NoEfficientOrderGive", b, value_new)

\* mutant: the LP to mint is rounded up
new_liquidity_ceil(bld, quantity_a, actual_dep_a, token_a) ==
    IF quantity_a > 0
    THEN Div((actual_dep_a * bld.pool.circulating_lp) + token_a - 1, token_a)
    ELSE 0

\* the LP a deposit mints (token_a # 0)
new_liquidity(bld, quantity_a, actual_dep_a, token_a) ==
    IF quantity_a > 0
    THEN Div(actual_dep_a * bld.pool.circulating_lp, token_a)
    ELSE 0

\* apply_order, Order::Deposit((a, b)); bld already counts the order
apply_deposit(bld, order) ==
    LET a == order.a
        b == order.b
        fee == simple_fee(bld)
        quantity_a == a.amount
        quantity_b == b.amount
        pv == pool_values(bld)
        token_a == pv[1]
        token_b == pv[2]
        actual_a == IF a.asset_class = ADA_ASSET_CLASS
                    THEN get(order.value, a.asset_class) - (ADA_RIDER + fee)
                    ELSE get(order.value, a.asset_class)
        actual_b == get(order.value, b.asset_class)
        user_gives_a == Min(quantity_a, actual_a)
        user_gives_b == Min(quantity_b, actual_b)
    IN
    IF ~(user_gives_a > 0) THEN Outcome("NegativeDeposit", bld, value_new)
    ELSE IF token_b = 0 THEN Outcome("Panic", bld, value_new)
    ELSE
    LET b_in_units_of_a == Div(user_gives_b * token_a, token_b) IN
    IF token_a = 0 THEN Outcome("Panic", bld, value_new)
    ELSE
    LET too_much_b == b_in_units_of_a > user_gives_a
        b_gives_minus_change == Div((token_b * user_gives_a) - 1, token_a) + 1
        b_change == IF too_much_b THEN user_gives_b - b_gives_minus_change ELSE 0
        a_change == IF too_much_b THEN 0 ELSE user_gives_a - b_in_units_of_a
        actual_dep_a == user_gives_a - a_change
        actual_dep_b == user_gives_b - b_change
        minted == new_liquidity(bld, quantity_a, actual_dep_a, token_a)
    IN
    IF ~(minted > 0) THEN Outcome("NoLiquidity", bld, value_new)
    ELSE
    LET v1 == add(bld.value, a.asset_class, actual_dep_a)
        v2 == add(v1, b.asset_class, actual_dep_b)
        b2 == [bld EXCEPT !.pool.circulating_lp = @ + minted, !.value = v2]
    IN  Outcome("Ok", add_fee(b2, fee),
                add(add(value_new, a.asset_class, actual_dep_a), b.asset_class, actual_dep_b))

\* mutant: the share of a reserve is taken on one LP token less
withdrawn_short(old, lp, circulating_lp) == Div(old * (lp.amount - 1), circulating_lp)

\* the share of a reserve a withdrawal of lp takes out (circulating_lp # 0)
withdrawn(old, lp, circulating_lp) == Div(old * lp.amount, circulating_lp)

\* apply_order, Order::Withdrawal(lp); b already counts the order
apply_withdrawal(b, order) ==
    LET lp == order.lp
        asset_a == b.pool.assets[1]
        asset_b == b.pool.assets[2]
        pv == pool_values(b)
        old_a == pv[1]
        old_b == pv[2]
    IN
    IF b.pool.circulating_lp = 0 THEN Outcome("Panic", b, value_new)
    ELSE
    LET withdrawn_a == withdrawn(old_a, lp, b.pool.circulating_lp)
        withdrawn_b == withdrawn(old_b, lp, b.pool.circulating_lp)
        v1 == subtract(b.value, asset_a, withdrawn_a)
        v2 == subtract(v1, asset_b, withdrawn_b)
        b2 == [b EXCEPT !.value = v2, !.pool.circulating_lp = @ - lp.amount]
    IN  Outcome("Ok", add_fee(b2, simple_fee(b2)),
                subtract(subtract(value_new, asset_a, withdrawn_a), asset_b, withdrawn_b))

\* apply_order, Order::Donation((a, b)); bld already counts the order
apply_donation(bld, order) ==
    LET a == order.a
        b == order.b
        v1 == add(bld.value, a.asset_class, a.amount)
        v2 == add(v1, b.asset_class, b.amount)
        b2 == [bld EXCEPT !.value = v2]
    IN  Outcome("Ok", add_fee(b2, simple_fee(b2)),
                add(add(value_new, a.asset_class, a.amount), b.asset_class, b.amount))

\* apply_order, Order::Record(_); b already counts the order
apply_record(b, order) ==
    Outcome("Ok", add_fee(b, simple_fee(b)), value_new)

\* ScoopBuilder::apply_order
apply_order(b, order) ==
    LET counted == [b EXCEPT !.actual_size = @ + 1] IN
    CASE order.action = "Strategy" -> Outcome("Ok", counted, value_new)
      [] order.action = "Swap" -> apply_swap(counted, order)
      [] order.action = "Deposit" -> apply_deposit(counted, order)
      [] order.action = "Withdrawal" -> apply_withdrawal(counted, order)
      [] order.action = "Donation" -> apply_donation(counted, order)
      [] order.action = "Record" -> apply_record(counted, order)

\* ScoopBuilder::validate
validate(b) ==
    IF b.expected_size # b.actual_size
    THEN [res |-> "WrongOrderCount", expected |-> b.expected_size, actual |-> b.actual_size]
    ELSE [res |-> "Ok", expected |-> 0, actual |-> 0]

\* ApplyOrderError
ApplyOrderError == {"NoEfficientOrderGive", "CoinPairMismatch", "NegativeDeposit", "NoLiquidity"}

(***************************************************************************)
(* Part E: the pools, settings and orders a scoop is replayed on           *)
(***************************************************************************)
\* the pool datums scoops are replayed on, scaled down from the unit tests: an
\* ada pool holding protocol fees, a token pool without protocol fees whose ask
\* side charges everything, and a token pool holding protocol fees
PoolDatums ==
    {[assets |-> <<ADA_ASSET_CLASS, SBERRY>>, circulating_lp |-> 2,
      bid_fees_per_10_thousand |-> 30, ask_fees_per_10_thousand |-> 50,
      protocol_fees |-> 5],
     [assets |-> <<RBERRY, SBERRY>>, circulating_lp |-> 1,
      bid_fees_per_10_thousand |-> 0, ask_fees_per_10_thousand |-> 10000,
      protocol_fees |-> 0],
     [assets |-> <<RBERRY, SBERRY>>, circulating_lp |-> 2,
      bid_fees_per_10_thousand |-> 50, ask_fees_per_10_thousand |-> 30,
      protocol_fees |-> 5]}

\* settings.datum (base_fee, simple_fee)
SettingsChoices == {[base_fee |-> 0, simple_fee |-> 2], [base_fee |-> 3, simple_fee |-> 1]}

\* the number of orders of a scoop (the unit tests replay scoops of 1 and of 2)
BatchSizes == {1, 2}

\* a pool UTxO holding reserve_a and reserve_b on top of its protocol fees
SundaeV3Pool(pool_datum, reserve_a, reserve_b) ==
    [pool_datum |-> pool_datum,
     value |-> add(add(add(value_new, ADA_ASSET_CLASS, pool_datum.protocol_fees),
                       pool_datum.assets[1], reserve_a),
                   pool_datum.assets[2], reserve_b)]

InitBuilder ==
    /\ HistNew
    /\ ValueIdle
    /\ ValidationIdle
    /\ IndexerNew
    /\ LogNew
    /\ CursorNew
    /\ DaoNew
    /\ ScooperIdle
    /\ LockIdle
    /\ \E pool_datum \in PoolDatums, reserve_a \in 1..MaxReserve, reserve_b \in 1..MaxReserve,
          settings \in SettingsChoices, size \in BatchSizes :
            builder = ScoopBuilder_new(SundaeV3Pool(pool_datum, reserve_a, reserve_b),
                                       settings, size)
    /\ blast = NoApply
    /\ accepted = 0
    /\ validated = NotValidated

\* the value of an order UTxO: the rider and the fee in ada, plus what it offers
OrderValue(offer_a, offer_b) ==
    add(add(add(value_new, ADA_ASSET_CLASS, ADA_RIDER + simple_fee(builder)),
            offer_a.asset_class, offer_a.amount), offer_b.asset_class, offer_b.amount)

\* one call of builder.apply_order(order) during the replay of a scoop
Apply(order) ==
    /\ validated.res = "none"
    /\ blast.res # "Panic"
    /\ builder.actual_size < builder.expected_size
    /\ LET r == apply_order(builder, order) IN
        /\ builder' = r.b
        /\ blast' = [order |-> order, res |-> r.res, pre |-> builder, own |-> r.own]
        /\ accepted' = IF r.res = "Ok" THEN accepted + 1 ELSE accepted
    /\ UNCHANGED validated
    /\ UNCHANGED builderRest

ApplyStrategy == Apply([action |-> "Strategy"])

\* a swap of one pool asset for the other, or one giving a token the pool does not hold
ApplySwap ==
    \E dir \in {"a_to_b", "b_to_a", "mismatch"}, amount \in 1..MaxAmount :
        LET assets == builder.pool.assets
            given == CASE dir = "a_to_b" -> assets[1]
                       [] dir = "b_to_a" -> assets[2]
                       [] dir = "mismatch" -> TINDY
            taken == IF dir = "a_to_b" THEN assets[2] ELSE assets[1]
        IN  /\ dir = "mismatch" => amount = 1
            /\ Apply([action |-> "Swap",
                      given |-> SingletonValue(given, amount),
                      taken |-> SingletonValue(taken, 0)])

\* a deposit of both pool assets; the UTxO may hold one less of a than declared
ApplyDeposit ==
    \E quantity_a \in 0..MaxAmount, quantity_b \in {1, MaxAmount}, short \in {0, 1} :
        LET assets == builder.pool.assets IN
        /\ short <= quantity_a
        /\ Apply([action |-> "Deposit",
                  a |-> SingletonValue(assets[1], quantity_a),
                  b |-> SingletonValue(assets[2], quantity_b),
                  value |-> OrderValue(SingletonValue(assets[1], quantity_a - short),
                                       SingletonValue(assets[2], quantity_b))])

ApplyWithdrawal ==
    \E amount \in 1..MaxAmount :
        Apply([action |-> "Withdrawal", lp |-> SingletonValue(LP, amount)])

ApplyDonation ==
    \E amount_a \in {0, MaxAmount}, amount_b \in {0, MaxAmount} :
        LET assets == builder.pool.assets IN
        Apply([action |-> "Donation",
               a |-> SingletonValue(assets[1], amount_a),
               b |-> SingletonValue(assets[2], amount_b)])

ApplyRecord == Apply([action |-> "Record", asset |-> builder.pool.assets[1]])

\* builder.validate() at the end of the replay
Validate ==
    /\ validated.res = "none"
    /\ blast.res # "Panic"
    /\ validated' = validate(builder)
    /\ UNCHANGED <<builder, blast, accepted>>
    /\ UNCHANGED builderRest

NextBuilder ==
    \/ ApplyStrategy
    \/ ApplySwap
    \/ ApplyDeposit
    \/ ApplyWithdrawal
    \/ ApplyDonation
    \/ ApplyRecord
    \/ Validate

SpecBuilder == InitBuilder /\ [][NextBuilder]_vars

(***************************************************************************)
(* Part E: claims                                                          *)
(***************************************************************************)
\* C6: when apply_order returns an ApplyOrderError the order is not applied
\* and takes no place in the batch: the pool datum, the value and the count
\* of applied orders are what they were before the call.
C6_ErrorLeavesBuilder ==
    blast.res \in ApplyOrderError =>
        /\ builder.pool = blast.pre.pool
        /\ builder.value = blast.pre.value
        /\ builder.actual_size = blast.pre.actual_size

\* C7: validate() returns Ok exactly when the number of orders apply_order
\* accepted equals the expected size N, and WrongOrderCount{N, that number}
\* otherwise.
C7_ValidateCountsAccepted ==
    validated.res # "none" =>
        /\ (validated.res = "Ok") = (accepted = builder.expected_size)
        /\ validated.res = "WrongOrderCount" =>
              /\ validated.expected = builder.expected_size
              /\ validated.actual = accepted

\* floor(pool_takes*diff*g / (pool_gives*10_000 + g*diff))
floor_takes(pool_takes, pool_gives, diff, g) ==
    (pool_takes * diff * g) \div ((pool_gives * TEN_THOUSAND) + (g * diff))

\* what the last order moved of an asset class, the fee share apart
Moved(asset_class) ==
    get(builder.value, asset_class) - get(blast.pre.value, asset_class)
      - (IF asset_class = ADA_ASSET_CLASS
         THEN builder.pool.protocol_fees - blast.pre.pool.protocol_fees
         ELSE 0)

\* the last call applied a swap to a pool with positive reserves and a fee
\* below 10_000
SwapApplied ==
    /\ blast.res = "Ok"
    /\ blast.order.action = "Swap"
    /\ pool_values(blast.pre)[1] > 0
    /\ pool_values(blast.pre)[2] > 0
    /\ LET fee_per_10k == IF blast.order.given.asset_class = blast.pre.pool.assets[1]
                          THEN blast.pre.pool.bid_fees_per_10_thousand
                          ELSE blast.pre.pool.ask_fees_per_10_thousand
       IN  0 <= fee_per_10k /\ fee_per_10k < TEN_THOUSAND

\* C8: for a swap applied to a pool with positive reserves and a fee below
\* 10_000, the amount given to the pool is the smallest g with
\* floor_takes(g) = takes, where takes = floor_takes(gives.amount); g is at
\* most gives.amount and the pool loses exactly takes of the other asset.
C8_MinimalGive ==
    SwapApplied =>
        LET pre == blast.pre
            given == blast.order.given
            a_to_b == given.asset_class = pre.pool.assets[1]
            pool_gives == IF a_to_b THEN pool_values(pre)[1] ELSE pool_values(pre)[2]
            pool_takes == IF a_to_b THEN pool_values(pre)[2] ELSE pool_values(pre)[1]
            other == IF a_to_b THEN pre.pool.assets[2] ELSE pre.pool.assets[1]
            diff == TEN_THOUSAND - (IF a_to_b THEN pre.pool.bid_fees_per_10_thousand
                                              ELSE pre.pool.ask_fees_per_10_thousand)
            takes == floor_takes(pool_takes, pool_gives, diff, given.amount)
            g == Moved(given.asset_class)
        IN  /\ Moved(other) = -takes
            /\ g <= given.amount
            /\ floor_takes(pool_takes, pool_gives, diff, g) = takes
            /\ \A smaller \in 0..(g - 1) :
                  floor_takes(pool_takes, pool_gives, diff, smaller) # takes

\* the least q with q * n >= x, for x >= 0 and n >= 1
CeilDiv(x, n) == CHOOSE q \in 0..x : q * n >= x /\ (q - 1) * n < x

\* C9: an applied order other than a Strategy adds the same fee =
\* ceil(base_fee / N) + simple_fee to pool.protocol_fees and to the ada of
\* the value, so every asset, the ada net of protocol fees included, changes
\* by the order's own amounts only; a Strategy order changes neither the
\* pool datum nor the value.
C9_FeeShare ==
    blast.res = "Ok" =>
        LET pre == blast.pre
            fee == CeilDiv(pre.settings.base_fee, pre.expected_size) + pre.settings.simple_fee
        IN  IF blast.order.action = "Strategy"
            THEN builder.pool = pre.pool /\ builder.value = pre.value
            ELSE /\ builder.pool.protocol_fees = pre.pool.protocol_fees + fee
                 /\ \A asset_class \in AssetClasses :
                       get(builder.value, asset_class) - get(pre.value, asset_class)
                         = get(blast.own, asset_class)
                             + (IF asset_class = ADA_ASSET_CLASS THEN fee ELSE 0)
                 /\ (get(builder.value, ADA_ASSET_CLASS) - builder.pool.protocol_fees)
                      - (get(pre.value, ADA_ASSET_CLASS) - pre.pool.protocol_fees)
                         = get(blast.own, ADA_ASSET_CLASS)

\* an order that moved ada itself was applied in a scoop of two whose base fee
\* of 3 does not divide evenly
C9_Witness ==
    /\ blast.res = "Ok"
    /\ blast.order.action \in {"Swap", "Deposit", "Withdrawal", "Donation"}
    /\ blast.pre.expected_size = 2
    /\ blast.pre.settings.base_fee = 3
    /\ get(blast.own, ADA_ASSET_CLASS) # 0
    /\ builder.pool.protocol_fees = blast.pre.pool.protocol_fees + 3

\* C10: the pool datum of the builder keeps circulating_lp >= 0 and
\* protocol_fees >= 0 through any sequence of apply_order calls.
C10_DatumNonNegative ==
    blast.res # "Panic" =>
        /\ builder.pool.circulating_lp >= 0
        /\ builder.pool.protocol_fees >= 0

(***************************************************************************)
(* Part E: deposits and withdrawals                                        *)
(***************************************************************************)
\* floor(x / n) and ceil(x / n) for n # 0
FloorDiv(x, n) == IF n > 0 THEN x \div n ELSE (-x) \div (-n)

CeilingDiv(x, n) == -FloorDiv(-x, n)

\* the last call was a Deposit that returned (no division by zero on the way)
DepositCalled ==
    /\ blast.order.action = "Deposit"
    /\ blast.res # "Panic"

\* the clamped offers of the last Deposit: the declared amount or the amount
\* in the UTxO, whichever is less, the UTxO's ada net of the ada reserve
ClampedA ==
    LET a == blast.order.a
        held == get(blast.order.value, a.asset_class)
        reserve == IF a.asset_class = ADA_ASSET_CLASS
                   THEN ADA_RIDER + CeilDiv(blast.pre.settings.base_fee, blast.pre.expected_size)
                          + blast.pre.settings.simple_fee
                   ELSE 0
    IN  IF a.amount <= held - reserve THEN a.amount ELSE held - reserve

ClampedB ==
    LET b == blast.order.b
        held == get(blast.order.value, b.asset_class)
    IN  IF b.amount <= held THEN b.amount ELSE held

\* C11: in an applied Deposit at most one side is refunded: if user_b valued
\* in A, floor(user_b*token_a/token_b), exceeds user_a, all of user_a and
\* ceil(token_b*user_a/token_a) of B enter the pool, otherwise all of user_b
\* and floor(user_b*token_a/token_b) of A; what enters is never negative and
\* never more than the clamped offers.
C11_DepositOneSideRefunded ==
    (DepositCalled /\ blast.res = "Ok") =>
        LET token_a == pool_values(blast.pre)[1]
            token_b == pool_values(blast.pre)[2]
            enters_a == get(blast.own, blast.order.a.asset_class)
            enters_b == get(blast.own, blast.order.b.asset_class)
            b_in_a == FloorDiv(ClampedB * token_a, token_b)
        IN  /\ IF b_in_a > ClampedA
               THEN /\ enters_a = ClampedA
                    /\ enters_b = CeilingDiv(token_b * ClampedA, token_a)
               ELSE /\ enters_b = ClampedB
                    /\ enters_a = b_in_a
            /\ 0 <= enters_a /\ enters_a <= ClampedA
            /\ 0 <= enters_b /\ enters_b <= ClampedB

\* both branches happen: a deposit refunded part of its B, another part of its A
C11_Witness ==
    /\ DepositCalled /\ blast.res = "Ok"
    /\ get(blast.own, blast.order.a.asset_class) = ClampedA
    /\ get(blast.own, blast.order.b.asset_class) < ClampedB
    /\ get(blast.own, blast.order.b.asset_class) > 0

\* the A amount that enters the pool and the LP it mints, when the reserves
\* are not zero
EntersA ==
    LET token_a == pool_values(blast.pre)[1]
        token_b == pool_values(blast.pre)[2]
        b_in_a == FloorDiv(ClampedB * token_a, token_b)
    IN  IF b_in_a > ClampedA THEN ClampedA ELSE b_in_a

LpToMint ==
    FloorDiv(EntersA * blast.pre.pool.circulating_lp, pool_values(blast.pre)[1])

C12_WitnessNegative == DepositCalled /\ blast.res = "NegativeDeposit" /\ blast.order.a.amount > 0

C12_WitnessNoLiquidity == DepositCalled /\ blast.res = "NoLiquidity" /\ ClampedA > 0

\* the last call was a Withdrawal of the pool's whole circulating_lp
WithdrawalOfAll ==
    /\ blast.order.action = "Withdrawal"
    /\ blast.res = "Ok"
    /\ blast.order.lp.amount = blast.pre.pool.circulating_lp

\* C13: a Withdrawal whose lp amount equals the pool's whole circulating_lp
\* removes the entire reserve of both pool assets and sets circulating_lp to
\* 0: the value afterwards holds only ada, equal to the updated protocol_fees.
C13_WithdrawAll ==
    WithdrawalOfAll =>
        /\ builder.pool.circulating_lp = 0
        /\ pool_values(builder) = <<0, 0>>
        /\ builder.pool.protocol_fees > blast.pre.pool.protocol_fees
        /\ builder.value = add(value_new, ADA_ASSET_CLASS, builder.pool.protocol_fees)

\* the whole of an ada pool holding protocol fees and more than one unit of
\* each reserve is withdrawn
C13_Witness ==
    /\ WithdrawalOfAll
    /\ blast.pre.pool.assets[1] = ADA_ASSET_CLASS
    /\ blast.pre.pool.protocol_fees > 0
    /\ pool_values(blast.pre)[1] > 1
    /\ pool_values(blast.pre)[2] > 1

(***************************************************************************)
(* Part V: Value (src/src/cardano_types.rs)                                *)
(***************************************************************************)
\* ada, two tokens of one policy and a token of another policy
ValueAssets == {ADA_ASSET_CLASS, RBERRY, SBERRY, TINDY}

Quantities == (-MaxQuantity)..MaxQuantity

InitValue ==
    /\ HistNew
    /\ BuilderIdle
    /\ ValidationIdle
    /\ IndexerNew
    /\ LogNew
    /\ CursorNew
    /\ DaoNew
    /\ ScooperIdle
    /\ LockIdle
    /\ val = value_new
    /\ vlast = NoValueOp

VLast(op, asset_class, quantity) ==
    [op |-> op, asset_class |-> asset_class, quantity |-> quantity, pre |-> val]

Insert(asset_class, quantity) ==
    /\ val' = insert(val, asset_class, quantity)
    /\ vlast' = VLast("insert", asset_class, quantity)
    /\ UNCHANGED valueRest

Add(asset_class, quantity) ==
    /\ get(val, asset_class) + quantity \in Quantities
    /\ val' = add(val, asset_class, quantity)
    /\ vlast' = VLast("add", asset_class, quantity)
    /\ UNCHANGED valueRest

Subtract(asset_class, quantity) ==
    /\ get(val, asset_class) - quantity \in Quantities
    /\ val' = subtract(val, asset_class, quantity)
    /\ vlast' = VLast("subtract", asset_class, quantity)
    /\ UNCHANGED valueRest

Delete(asset_class) ==
    /\ val' = delete(val, asset_class)
    /\ vlast' = VLast("delete", asset_class, 0)
    /\ UNCHANGED valueRest

NextValue ==
    \/ \E asset_class \in ValueAssets, quantity \in Quantities : Insert(asset_class, quantity)
    \/ \E asset_class \in ValueAssets, quantity \in Quantities : Add(asset_class, quantity)
    \/ \E asset_class \in ValueAssets, quantity \in Quantities : Subtract(asset_class, quantity)
    \/ \E asset_class \in ValueAssets : Delete(asset_class)

SpecValue == InitValue /\ [][NextValue]_vars

\* the asset classes a Value stores
StoredIn(v) == {ac \in ValueAssets : ac.policy \in DOMAIN v /\ ac.token \in DOMAIN v[ac.policy]}

\* C14: after any sequence of insert, add, subtract and delete calls on a
\* Value no asset class is stored with amount zero and no policy with an
\* empty token map; get returns 0 for every asset class not stored; and an
\* operation on one asset class changes the amount of no other asset class.
C14_ValueNormalised ==
    /\ \A policy \in DOMAIN val :
          /\ DOMAIN val[policy] # {}
          /\ \A token \in DOMAIN val[policy] : val[policy][token] # 0
    /\ \A ac \in ValueAssets \ StoredIn(val) : get(val, ac) = 0
    /\ \A ac \in ValueAssets \ {vlast.asset_class} : get(val, ac) = get(vlast.pre, ac)

\* the last token of a policy went to zero by a subtraction while another
\* asset class stayed stored
C14_Witness ==
    /\ vlast.op = "subtract"
    /\ vlast.quantity # 0
    /\ vlast.asset_class \in StoredIn(vlast.pre)
    /\ vlast.asset_class.policy \notin DOMAIN val
    /\ StoredIn(val) # {}

(***************************************************************************)
(* Part D: validate_order_value (src/src/sundaev3/validation.rs)           *)
(***************************************************************************)
\* Value::get_asset_class: the amount a value holds of an asset class
get_asset_class(v, asset_class) == get(v, asset_class)

\* Result<(), ValueError>
ValueOk == [res |-> "Ok"]

GivesZeroTokens == [res |-> "GivesZeroTokens"]

HasInsufficientTokens(asset, expected, actual) ==
    [res |-> "HasInsufficientTokens", asset |-> asset, expected |-> expected, actual |-> actual]

\* mutant: the scoop fee is left out of the ada an order must carry
minimum_ada_no_fee(scoop_fee) == ADA_RIDER

\* BigInt::from(ADA_RIDER) + scoop_fee
minimum_ada(scoop_fee) == ADA_RIDER + scoop_fee

\* validate_order_value, Order::Swap(gives, _takes)
validate_swap_value(datum, value) ==
    LET gives == datum.action.given
        gives_asset == gives.asset_class
        gives_ada == IF gives_asset = ADA_ASSET_CLASS THEN gives.amount ELSE 0
        actual_ada == get_asset_class(value, ADA_ASSET_CLASS)
        expected_ada == gives_ada + minimum_ada(datum.scoop_fee)
        actual_amount_of_give_token ==
            get_asset_class(value, gives_asset)
              - (IF gives_asset = ADA_ASSET_CLASS THEN minimum_ada(datum.scoop_fee) ELSE 0)
    IN  IF ~(gives.amount > 0) THEN GivesZeroTokens
        ELSE IF actual_ada < expected_ada
        THEN HasInsufficientTokens(ADA_ASSET_CLASS, expected_ada, actual_ada)
        ELSE IF actual_amount_of_give_token < 0 THEN GivesZeroTokens
        ELSE IF actual_amount_of_give_token < gives.amount
        THEN HasInsufficientTokens(gives_asset, gives.amount, actual_amount_of_give_token)
        ELSE ValueOk

\* validate_order_value, Order::Deposit((a, b))
validate_deposit_value(datum, value) ==
    LET a == datum.action.a
        b == datum.action.b
        asset_a == a.asset_class
        asset_b == b.asset_class
        held_a == get_asset_class(value, asset_a)
        minimum == minimum_ada(datum.scoop_fee)
        actual_a == IF asset_a = ADA_ASSET_CLASS THEN held_a - minimum ELSE held_a
        actual_b == get_asset_class(value, asset_b)
    IN  IF asset_a = ADA_ASSET_CLASS /\ held_a < minimum
        THEN HasInsufficientTokens(ADA_ASSET_CLASS, minimum, held_a)
        ELSE IF ~(actual_a > 0) \/ ~(actual_b > 0) THEN GivesZeroTokens
        ELSE IF actual_a < a.amount THEN HasInsufficientTokens(asset_a, a.amount, actual_a)
        ELSE IF actual_b < b.amount THEN HasInsufficientTokens(asset_b, b.amount, actual_b)
        ELSE ValueOk

\* validate_order_value, Order::Withdrawal(singleton)
validate_withdrawal_value(datum, value) ==
    LET singleton == datum.action.lp
        actual == get_asset_class(value, singleton.asset_class)
        expected == minimum_ada(datum.scoop_fee)
        actual_ada == get_asset_class(value, ADA_ASSET_CLASS)
    IN  IF ~(singleton.amount > 0) THEN GivesZeroTokens
        ELSE IF actual < singleton.amount
        THEN HasInsufficientTokens(singleton.asset_class, singleton.amount, actual)
        ELSE IF actual_ada < expected
        THEN HasInsufficientTokens(ADA_ASSET_CLASS, expected, actual_ada)
        ELSE ValueOk

\* validate_order_value
validate_order_value(datum, value) ==
    CASE datum.action.action = "Strategy" -> ValueOk
      [] datum.action.action = "Swap" -> validate_swap_value(datum, value)
      [] datum.action.action = "Deposit" -> validate_deposit_value(datum, value)
      [] datum.action.action = "Withdrawal" -> validate_withdrawal_value(datum, value)
      [] OTHER -> ValueOk

\* OrderDatum: the fields validate_order_value reads
OrderDatum(scoop_fee, action) == [scoop_fee |-> scoop_fee, action |-> action]

ScoopFees == 0..MaxFee

\* amounts a datum names: a negative one, zero, and 1..MaxAmount
DatumAmounts == (-1)..MaxAmount

\* the ada of an order UTxO: next to nothing, or around rider + scoop fee + offer
AdaHeld ==
    (0..MaxAmount) \cup {ADA_RIDER + extra : extra \in (-1)..(MaxFee + MaxAmount + 1)}

\* the tokens of an order UTxO
TokensHeld == 0..MaxAmount

\* the value of an order UTxO holding ada and two tokens
UtxoValue(ada, held_r, held_s) ==
    insert(insert(insert(value_new, ADA_ASSET_CLASS, ada), RBERRY, held_r), SBERRY, held_s)

\* a call of validate_order_value that has not returned yet
Call(datum, value) == [datum |-> datum, value |-> value, ret |-> [res |-> "none"]]

SwapCalls ==
    {Call(OrderDatum(scoop_fee, [action |-> "Swap",
                                 given |-> SingletonValue(asset, amount),
                                 taken |-> SingletonValue(SBERRY, 1)]),
          UtxoValue(ada, held_r, 0)) :
        scoop_fee \in ScoopFees, asset \in {ADA_ASSET_CLASS, RBERRY}, amount \in DatumAmounts,
        held_r \in TokensHeld, ada \in AdaHeld}

DepositCalls ==
    {Call(OrderDatum(scoop_fee, [action |-> "Deposit",
                                 a |-> SingletonValue(pair[1], amount_a),
                                 b |-> SingletonValue(pair[2], amount_b)]),
          UtxoValue(ada, held_r, held_s)) :
        scoop_fee \in ScoopFees,
        pair \in {<<ADA_ASSET_CLASS, RBERRY>>, <<RBERRY, ADA_ASSET_CLASS>>, <<RBERRY, SBERRY>>},
        amount_a \in DatumAmounts, amount_b \in {1, MaxAmount},
        held_r \in TokensHeld, held_s \in {0, MaxAmount}, ada \in AdaHeld}

WithdrawalCalls ==
    {Call(OrderDatum(scoop_fee, [action |-> "Withdrawal",
                                 lp |-> SingletonValue(RBERRY, amount)]),
          UtxoValue(ada, held_r, 0)) :
        scoop_fee \in ScoopFees, amount \in DatumAmounts, held_r \in TokensHeld,
        ada \in AdaHeld}

OtherCalls ==
    {Call(OrderDatum(scoop_fee, [action |-> kind]), UtxoValue(ada, 0, 0)) :
        scoop_fee \in ScoopFees, kind \in {"Strategy", "Donation", "Record"}, ada \in AdaHeld}

\* an order datum and the value of its UTxO are handed to validate_order_value
InitOrderValue ==
    /\ HistNew
    /\ BuilderIdle
    /\ ValueIdle
    /\ IndexerNew
    /\ LogNew
    /\ CursorNew
    /\ DaoNew
    /\ ScooperIdle
    /\ LockIdle
    /\ vov \in SwapCalls \cup DepositCalls \cup WithdrawalCalls \cup OtherCalls

\* validate_order_value(datum, value) returns
ValidateOrderValue ==
    /\ vov.ret.res = "none"
    /\ vov.datum.action.action # "none"
    /\ vov' = [vov EXCEPT !.ret = validate_order_value(vov.datum, vov.value)]
    /\ UNCHANGED validationRest

NextOrderValue == ValidateOrderValue

SpecOrderValue == InitOrderValue /\ [][NextOrderValue]_vars

\* the last call validated a Swap / a Deposit
SwapValidated == vov.datum.action.action = "Swap" /\ vov.ret.res # "none"

DepositValidated == vov.datum.action.action = "Deposit" /\ vov.ret.res # "none"

\* the amount a UTxO value holds of an asset class
Held(v, asset_class) ==
    IF asset_class.policy \in DOMAIN v /\ asset_class.token \in DOMAIN v[asset_class.policy]
    THEN v[asset_class.policy][asset_class.token]
    ELSE 0

\* the ada a Swap must carry: gives.amount if it gives ada, plus 2_000_000 + scoop_fee
SwapExpectedAda ==
    (IF vov.datum.action.given.asset_class = ADA_ASSET_CLASS
     THEN vov.datum.action.given.amount ELSE 0) + 2000000 + vov.datum.scoop_fee

\* C15: for a Swap with gives.amount > 0, validate_order_value returns Ok
\* exactly when the UTxO's ada is at least (gives.amount if the given asset
\* is ada, else 0) + 2_000_000 + scoop_fee and the UTxO holds at least
\* gives.amount of the given asset; with less ada (one lovelace less
\* included) it returns HasInsufficientTokens for ada with that expected
\* amount; gives.amount <= 0 yields GivesZeroTokens whatever the UTxO holds.
C15_SwapValue ==
    SwapValidated =>
        LET gives == vov.datum.action.given
            ada == Held(vov.value, ADA_ASSET_CLASS)
        IN  IF gives.amount <= 0 THEN vov.ret = GivesZeroTokens
            ELSE /\ (vov.ret = ValueOk) =
                       (/\ ada >= SwapExpectedAda
                        /\ Held(vov.value, gives.asset_class) >= gives.amount)
                 /\ ada < SwapExpectedAda =>
                       vov.ret = [res |-> "HasInsufficientTokens", asset |-> ADA_ASSET_CLASS,
                                  expected |-> SwapExpectedAda, actual |-> ada]

\* a swap giving ada with a scoop fee, one lovelace short
C15_Witness ==
    /\ SwapValidated
    /\ vov.datum.action.given.asset_class = ADA_ASSET_CLASS
    /\ vov.datum.action.given.amount > 1
    /\ vov.datum.scoop_fee > 0
    /\ Held(vov.value, ADA_ASSET_CLASS) = SwapExpectedAda - 1
    /\ vov.ret.res = "HasInsufficientTokens"

\* a swap giving a token is accepted with exactly the ada and the tokens it needs
C15_WitnessOk ==
    /\ SwapValidated
    /\ vov.datum.action.given.asset_class = RBERRY
    /\ Held(vov.value, ADA_ASSET_CLASS) = SwapExpectedAda
    /\ Held(vov.value, RBERRY) = vov.datum.action.given.amount
    /\ vov.ret = ValueOk

\* C16: for a Deposit(a, b), validate_order_value deducts
\* ada_min = 2_000_000 + scoop_fee from the UTxO's ada before comparing,
\* whichever of a or b is ada, and returns Ok only if the remaining amounts
\* of a and b are both strictly positive and at least a.amount and b.amount.
C16_DepositValue ==
    (DepositValidated /\ vov.ret = ValueOk) =>
        LET a == vov.datum.action.a
            b == vov.datum.action.b
            ada_min == 2000000 + vov.datum.scoop_fee
            remaining(asset_class) ==
                Held(vov.value, asset_class)
                  - (IF asset_class = ADA_ASSET_CLASS THEN ada_min ELSE 0)
        IN  /\ remaining(a.asset_class) > 0
            /\ remaining(b.asset_class) > 0
            /\ remaining(a.asset_class) >= a.amount
            /\ remaining(b.asset_class) >= b.amount

(***************************************************************************)
(* Part D: validate_order (src/src/sundaev3/validation.rs)                 *)
(***************************************************************************)
\* Ord for AssetClass: by policy bytes, then by token bytes
AssetRank(asset_class) ==
    CASE asset_class = ADA_ASSET_CLASS -> 0
      [] asset_class = RBERRY -> 1
      [] asset_class = SBERRY -> 2
      [] asset_class = LP -> 3
      [] asset_class = TINDY -> 4

\* Option<Ident>::None in an order datum; the idents of pools are 1, 2, ...
NoIdent == 0

\* validate_order_for_pool
validate_order_for_pool(order, pool) ==
    IF order.ident # NoIdent /\ order.ident # pool.ident THEN "IdentMismatch"
    ELSE IF order.action.action \in {"Swap", "Deposit"}
    THEN LET first == IF order.action.action = "Swap" THEN order.action.given.asset_class
                      ELSE order.action.a.asset_class
             second == IF order.action.action = "Swap" THEN order.action.taken.asset_class
                       ELSE order.action.b.asset_class
             matches_a_to_b == pool.assets[1] = first /\ pool.assets[2] = second
             matches_b_to_a == pool.assets[1] = second /\ pool.assets[2] = first
         IN  IF ~(matches_a_to_b \/ matches_b_to_a) THEN "CoinPairMismatch" ELSE "Ok"
    ELSE "Ok"

\* get_pool_price: Some(qa / qb), kept as the two reserves, when qa >= 0 and
\* qb > 0, else None
get_pool_price(pd, pool_value) ==
    LET qa == get(pool_value, pd.assets[1])
                - (IF pd.assets[1] = ADA_ASSET_CLASS THEN pd.protocol_fees ELSE 0)
        qb == get(pool_value, pd.assets[2])
    IN  [some |-> qa >= 0 /\ qb > 0, qa |-> qa, qb |-> qb]

\* swap_price: Some(direction, gives / takes), kept as the two amounts
\* (f64::MAX when takes = 0), for a Swap, else None
swap_price(od) ==
    IF od.action.action = "Swap"
    THEN [some |-> TRUE,
          direction |-> IF AssetRank(od.action.given.asset_class)
                            < AssetRank(od.action.taken.asset_class)
                        THEN "AtoB" ELSE "BtoA",
          gives |-> od.action.given.amount,
          takes |-> od.action.taken.amount]
    ELSE [some |-> FALSE, direction |-> "AtoB", gives |-> 0, takes |-> 0]

\* estimate_whether_in_range, for gives > 0 and takes >= 0: the comparisons of
\* the two quotients, cross-multiplied
estimate_whether_in_range(od, pd, pool_value) ==
    LET pool_price == get_pool_price(pd, pool_value)
        price == swap_price(od)
    IN  IF ~pool_price.some THEN "Empty"
        ELSE IF ~price.some THEN "Ok"
        ELSE LET qa == pool_price.qa
                 qb == pool_price.qb
                 in_range ==
                    IF price.direction = "AtoB"
                    THEN price.takes = 0 \/ qa * price.takes <= price.gives * qb
                    ELSE IF price.takes = 0 THEN qa > 0
                         ELSE qa * price.gives >= price.takes * qb
             IN  IF in_range THEN "Ok" ELSE "OutOfRange"

\* validate_order
validate_order(order, value, pool, pool_value) ==
    LET value_result == validate_order_value(order, value).res IN
    IF value_result # "Ok" THEN value_result
    ELSE LET pool_result == validate_order_for_pool(order, pool) IN
         IF pool_result # "Ok" THEN pool_result
         ELSE estimate_whether_in_range(order, pool, pool_value)

(***************************************************************************)
(* Part C: SundaeV3Indexer (src/src/sundaev3/indexer.rs)                   *)
(***************************************************************************)
\* HistoricalState<SundaeV3State>: T::default() is SundaeV3State::default()
history_latest(h) == IF DOMAIN h = {} THEN DefaultState ELSE latest(h)

history_update_slot(h, slot) ==
    LET r == update_slot(h, slot) IN
    IF DOMAIN h = {} THEN [ok |-> TRUE, slots |-> (slot :> DefaultState)] ELSE r

\* a transaction has at most OutputsPerTx outputs; TransactionInput::new(hash, ix)
OutputsPerTx == 5

TransactionInput(hash, ix) == (hash * OutputsPerTx) + ix

\* spent_inputs.sort()
RECURSIVE sort(_)
sort(S) == IF S = {} THEN << >> ELSE LET m == MinOf(S) IN <<m>> \o sort(S \ {m})

\* mutant: only the first of the sorted inputs is found
binary_search_head(spent_inputs, input) ==
    IF spent_inputs # << >> /\ spent_inputs[1] = input THEN 0 ELSE -1

\* spent_inputs.binary_search(input): Ok(index) as a 0-based index, Err as -1
binary_search(spent_inputs, input) ==
    IF \E i \in 1..Len(spent_inputs) : spent_inputs[i] = input
    THEN (CHOOSE i \in 1..Len(spent_inputs) : spent_inputs[i] = input) - 1
    ELSE -1

\* parse_redeemer::<T>: the redeemer of the spend at spend_index if it parses
\* as one of the kinds of T, else None
parse_redeemer(tx, spend_index, kinds) ==
    IF spend_index + 1 \in DOMAIN tx.redeemers /\ tx.redeemers[spend_index + 1].kind \in kinds
    THEN tx.redeemers[spend_index + 1]
    ELSE [kind |-> "None"]

PoolRedeemer == {"PoolScoop", "Manage"}

OrderRedeemer == {"Scoop", "Cancel"}

\* the outputs of a transaction with the input each one creates
Created(tx, hash) ==
    [i \in 1..Len(tx.outputs) |-> [output |-> tx.outputs[i], input |-> TransactionInput(hash, i - 1)]]

\* the records a transaction creates
NewPool(c, slot) ==
    [input |-> c.input, value |-> c.output.value, pool_datum |-> c.output.datum, slot |-> slot]

NewOrder(c, slot) ==
    [input |-> c.input, value |-> c.output.value, datum |-> c.output.datum, slot |-> slot]

NewSettings(c, slot) == [input |-> c.input, datum |-> c.output.datum, slot |-> slot]

\* PersistedTxo of a created output
PersistedTxo(c, slot) ==
    [txo_id |-> c.input, txo_type |-> c.output.kind, created_slot |-> slot, txo |-> c.output]

Tracked == {"pool", "order", "settings"}

\* SelectSeq with the test given as a set of wanted kinds
RECURSIVE OfKind(_, _)
OfKind(created, kinds) ==
    IF created = << >> THEN << >>
    ELSE (IF Head(created).output.kind \in kinds THEN <<Head(created)>> ELSE << >>)
            \o OfKind(Tail(created), kinds)

\* updated_pools: ident -> the last pool output carrying that ident
updated_pools(created, slot) ==
    LET pools == OfKind(created, {"pool"})
        idents == {pools[i].output.datum.ident : i \in 1..Len(pools)}
    IN  [ident \in idents |->
            NewPool(pools[MaxOf({i \in 1..Len(pools) : pools[i].output.datum.ident = ident})],
                    slot)]

\* mutant: the new orders come out last output first
new_orders_reversed(created, slot) ==
    LET orders == OfKind(created, {"order"}) IN
    [i \in 1..Len(orders) |-> NewOrder(orders[Len(orders) + 1 - i], slot)]

\* new_orders, in output order
new_orders(created, slot) ==
    LET orders == OfKind(created, {"order"}) IN
    [i \in 1..Len(orders) |-> NewOrder(orders[i], slot)]

\* new_settings: the last settings output, if any
new_settings(created, slot) ==
    LET settings == OfKind(created, {"settings"}) IN
    IF settings = << >> THEN << >> ELSE <<NewSettings(settings[Len(settings)], slot)>>

\* changes.created_txos, in output order
created_txos(created, slot) ==
    LET tracked == OfKind(created, Tracked) IN
    [i \in 1..Len(tracked) |-> PersistedTxo(tracked[i], slot)]

\* the scoops a transaction schedules, in the order pools.retain visits the
\* spent pools (by ident): one per spent pool whose redeemer parses as
\* PoolScoop, provided settings are known
scoops(state, tx, spent_inputs) ==
    LET spent_idents ==
            sort({ident \in DOMAIN state.pools :
                    binary_search(spent_inputs, state.pools[ident].input) # -1})
        redeemer(ident) ==
            parse_redeemer(tx, binary_search(spent_inputs, state.pools[ident].input),
                           PoolRedeemer)
        scooping == SelectSeq(spent_idents,
                              LAMBDA ident : /\ redeemer(ident).kind = "PoolScoop"
                                             /\ state.settings # << >>)
    IN  [i \in 1..Len(scooping) |->
            [builder |-> ScoopBuilder_new(state.pools[scooping[i]], state.settings[1].datum,
                                          Len(redeemer(scooping[i]).input_order)),
             orders |-> redeemer(scooping[i]).input_order]]

\* what SundaeV3Indexer::apply_order leaves behind: the builder and the
\* validation error, or else what ScoopBuilder::apply_order returned
order_applied(scoop, valid, applied) ==
    IF valid # "Ok" THEN [builder |-> scoop, res |-> valid]
    ELSE [builder |-> applied.b, res |-> applied.res]

\* SundaeV3Indexer::apply_order: validate_order, then ScoopBuilder::apply_order
indexer_apply_order(order, scoop) ==
    order_applied(scoop,
                  validate_order(order.datum, order.value, scoop.pool, scoop.value),
                  apply_order(scoop, [value |-> order.value] @@ order.datum.action))

\* what one turn of the loop over scoop.orders leaves behind
order_replayed(scoop, order_index, input, known, applied) ==
    IF input = -1
    THEN [builder |-> scoop,
          entry |-> [order_index |-> order_index, input |-> -1,
                     res |-> "invalid order index"]]
    ELSE IF known = {}
    THEN [builder |-> scoop,
          entry |-> [order_index |-> order_index, input |-> input,
                     res |-> "unrecognized order"]]
    ELSE [builder |-> applied.builder,
          entry |-> [order_index |-> order_index, input |-> input, res |-> applied.res]]

\* one turn of the loop over scoop.orders: the builder afterwards and what
\* became of the order index
replay_order(scoop, order_index, spent_inputs, state_orders) ==
    LET input == IF order_index + 1 \in 1..Len(spent_inputs)
                 THEN spent_inputs[order_index + 1] ELSE -1
        known == {i \in 1..Len(state_orders) : state_orders[i].input = input}
    IN  order_replayed(scoop, order_index, input, known,
                       indexer_apply_order(state_orders[MinOf(known)], scoop))

\* the loop over scoop.orders
RECURSIVE replay(_, _, _, _, _)
\* mutant: the loop over scoop.orders ends at the first order that fails
replay_rest_stop(turn, orders, spent_inputs, state_orders, log) ==
    IF turn.entry.res # "Ok" THEN [builder |-> turn.builder, log |-> Append(log, turn.entry)]
    ELSE replay(turn.builder, orders, spent_inputs, state_orders, Append(log, turn.entry))

replay_rest(turn, orders, spent_inputs, state_orders, log) ==
    replay(turn.builder, orders, spent_inputs, state_orders, Append(log, turn.entry))

replay(scoop, orders, spent_inputs, state_orders, log) ==
    IF orders = << >> THEN [builder |-> scoop, log |-> log]
    ELSE replay_rest(replay_order(scoop, Head(orders), spent_inputs, state_orders),
                     Tail(orders), spent_inputs, state_orders, log)

\* what the one scoop a transaction executes leaves behind
scoop_executed(scoop, replayed, updated) ==
    LET ident == scoop.builder.pool.ident IN
    [ident |-> ident,
     log |-> replayed.log,
     scooped_orders |-> {scoop.orders[i] : i \in 1..Len(scoop.orders)},
     validate |-> validate(replayed.builder).res,
     observed |->
        IF ident \notin DOMAIN updated THEN "missing"
        ELSE IF /\ replayed.builder.pool.circulating_lp = updated[ident].pool_datum.circulating_lp
                /\ replayed.builder.value = updated[ident].value
        THEN "as expected" ELSE "incorrect"]

\* the one scoop a transaction executes: replay, validate, compare with the
\* pool output observed on chain
execute(scoop, spent_inputs, state_orders, updated) ==
    scoop_executed(scoop,
                   replay(scoop.builder, scoop.orders, spent_inputs, state_orders, << >>),
                   updated)

\* handle_onchain_tx_bytes up to "And apply the new state": the snapshot of
\* the slot afterwards, the changes staged for the DAO, the scoops scheduled
\* and the scoop executed
reduce(state, tx, hash, info) ==
    LET slot == info.slot
        created == Created(tx, hash)
        updated == updated_pools(created, slot)
        spent_inputs == sort(tx.inputs)
        is_spent(input) == binary_search(spent_inputs, input) # -1
        spent_idents == sort({ident \in DOMAIN state.pools : is_spent(state.pools[ident].input)})
        scheduled == scoops(state, tx, spent_inputs)
        executed == IF Len(scheduled) > 1 THEN << >>
                    ELSE IF Len(scheduled) = 1
                    THEN <<execute(scheduled[1], spent_inputs, state.orders, updated)>>
                    ELSE << >>
        kept_pools == [ident \in {i \in DOMAIN state.pools : ~is_spent(state.pools[i].input)}
                          |-> state.pools[ident]]
        kept_orders == SelectSeq(state.orders, LAMBDA o : ~is_spent(o.input))
        spent_orders == SelectSeq(state.orders, LAMBDA o : is_spent(o.input))
        settings_spent == state.settings # << >> /\ state.settings[1].input \in tx.inputs
        settings_new == new_settings(created, slot)
        spent_txos ==
            [i \in 1..Len(spent_idents) |-> state.pools[spent_idents[i]].input]
              \o [i \in 1..Len(spent_orders) |-> spent_orders[i].input]
              \o (IF settings_spent THEN <<state.settings[1].input>> ELSE << >>)
    IN  [state |-> [pools |-> updated @@ kept_pools,
                    orders |-> kept_orders \o new_orders(created, slot),
                    settings |-> IF settings_new # << >> THEN settings_new
                                 ELSE IF settings_spent THEN << >>
                                 ELSE state.settings],
         changes |-> [slot |-> slot, height |-> info.number,
                      created_txos |-> created_txos(created, slot),
                      spent_txos |-> spent_txos,
                      metadata_datums |-> << >>],
         scheduled |-> [i \in 1..Len(scheduled) |-> scheduled[i].builder.pool.ident],
         executed |-> executed]

\* mutant: the changes of a transaction never count as empty
is_empty_never(changes) == FALSE

\* SundaeV3TxChanges::is_empty
is_empty(changes) ==
    /\ changes.created_txos = << >>
    /\ changes.spent_txos = << >>
    /\ changes.metadata_datums = << >>

(***************************************************************************)
(* SqliteSundaeV3Dao (src/src/persistence/sqlite.rs)                       *)
(***************************************************************************)
\* NULL in spent_slot and spent_height
Null == -1

\* apply_tx_changes: INSERT the created rows, then UPDATE the spent ones
dao_apply_tx_changes(rows, changes) ==
    LET inserted == [i \in 1..Len(changes.created_txos) |->
                        [txo_type |-> changes.created_txos[i].txo_type,
                         created_slot |-> changes.created_txos[i].created_slot,
                         spent_slot |-> Null, spent_height |-> Null,
                         txo |-> changes.created_txos[i].txo]]
        ids == {changes.created_txos[i].txo_id : i \in 1..Len(changes.created_txos)}
        index(id) == CHOOSE i \in 1..Len(changes.created_txos) : changes.created_txos[i].txo_id = id
        with_created == [id \in ids |-> inserted[index(id)]] @@ rows
        spent == {changes.spent_txos[i] : i \in 1..Len(changes.spent_txos)}
    IN  [id \in DOMAIN with_created |->
            IF id \in spent
            THEN [with_created[id] EXCEPT !.spent_slot = changes.slot,
                                          !.spent_height = changes.height]
            ELSE with_created[id]]

\* mutant: the rows spent after slot stay spent
dao_rollback_created_only(rows, slot) ==
    [id \in {i \in DOMAIN rows : ~(rows[i].created_slot > slot)} |-> rows[id]]

\* rollback: DELETE the rows created after slot, un-spend the rows spent after slot
dao_rollback(rows, slot) ==
    [id \in {i \in DOMAIN rows : ~(rows[i].created_slot > slot)} |->
        IF rows[id].spent_slot # Null /\ rows[id].spent_slot > slot
        THEN [rows[id] EXCEPT !.spent_slot = Null, !.spent_height = Null]
        ELSE rows[id]]

\* mutant: NULL counts as a height below every min_height
dao_prune_txos_null_low(rows, min_height) ==
    [id \in {i \in DOMAIN rows : ~(rows[i].spent_height < min_height)} |-> rows[id]]

\* prune_txos: DELETE the rows spent below min_height
dao_prune_txos(rows, min_height) ==
    [id \in {i \in DOMAIN rows :
                ~(rows[i].spent_height # Null /\ rows[i].spent_height < min_height)} |-> rows[id]]

(***************************************************************************)
(* The transactions and rollback points handed to the indexer              *)
(***************************************************************************)
\* rollback_limit of the indexer: the history keeps that many snapshots
rollback_limit == 2

\* a pool output of the protocol: RBERRY/SBERRY, `reserve` of each
PoolOutput(ident, reserve) ==
    [kind |-> "pool",
     datum |-> [ident |-> ident, assets |-> <<RBERRY, SBERRY>>, circulating_lp |-> 2,
                bid_fees_per_10_thousand |-> 50, ask_fees_per_10_thousand |-> 30,
                protocol_fees |-> 0],
     value |-> UtxoValue(0, reserve, reserve)]

\* an order output: a swap of `amount` RBERRY for SBERRY open to any pool,
\* carrying the rider and the offer
OrderOutput(amount) ==
    [kind |-> "order",
     datum |-> [ident |-> NoIdent, scoop_fee |-> 0,
                action |-> [action |-> "Swap", given |-> SingletonValue(RBERRY, amount),
                            taken |-> SingletonValue(SBERRY, 0)]],
     value |-> UtxoValue(ADA_RIDER, amount, 0)]

\* an order output: a deposit of `amount` RBERRY and `amount` SBERRY open to
\* any pool, carrying the rider and the deposit
DepositOutput(amount) ==
    [kind |-> "order",
     datum |-> [ident |-> NoIdent, scoop_fee |-> 0,
                action |-> [action |-> "Deposit", a |-> SingletonValue(RBERRY, amount),
                            b |-> SingletonValue(SBERRY, amount)]],
     value |-> UtxoValue(ADA_RIDER, amount, amount)]

SettingsOutput ==
    [kind |-> "settings", datum |-> [base_fee |-> 0, simple_fee |-> 1], value |-> value_new]

\* an output at no address of the protocol
OtherOutput == [kind |-> "other", datum |-> << >>, value |-> UtxoValue(1, 0, 0)]

\* the input every transaction spends to pay its fee: tracked by no snapshot
FeeInput == 0

\* parse_pool and parse_settings accept an output only if it holds the NFT of
\* the pool or of the settings, and the chain holds each NFT once: a pool or
\* the settings can be created only where the snapshot holds none, or by the
\* transaction that spends the one it holds
Unique(outputs, inputs, state) ==
    \A i \in 1..Len(outputs) :
        /\ outputs[i].kind = "pool" =>
              \/ outputs[i].datum.ident \notin DOMAIN state.pools
              \/ state.pools[outputs[i].datum.ident].input \in inputs
        /\ outputs[i].kind = "settings" =>
              \/ state.settings = << >>
              \/ state.settings[1].input \in inputs

\* the outputs of a transaction: one that spends nothing of the protocol
\* creates nothing, or the settings with pool 1, a swap offering nothing, a
\* deposit too small to mint LP and a swap, or pool 2; one that spends pools,
\* orders or settings creates nothing or pool 1 anew, or, among the rarer
\* transactions, nothing, the settings anew, or pool 1 anew between two new
\* orders
OutputChoices(inputs, state, rare) ==
    {outputs \in
        (IF inputs = {FeeInput}
         THEN {<< >>,
               <<SettingsOutput, PoolOutput(1, MaxReserve), OrderOutput(0), DepositOutput(1),
                 OrderOutput(1)>>,
               <<PoolOutput(2, MaxReserve), OtherOutput>>}
         ELSE IF rare
         THEN {<< >>, <<SettingsOutput>>,
               <<OrderOutput(1), PoolOutput(1, MaxReserve - 1), OrderOutput(0)>>}
         ELSE {<< >>, <<PoolOutput(1, MaxReserve - 1)>>}) :
        Unique(outputs, inputs, state)}

\* the redeemers a spent pool comes with: a scoop of the listed inputs, a
\* scoop listing an index past the inputs and the fee input before them, or
\* Manage; among the rarer transactions also none that parses
PoolRedeemerChoices(order_indices, rare) ==
    {[kind |-> "PoolScoop", input_order |-> order_indices],
     [kind |-> "PoolScoop",
      input_order |-> <<OutputsPerTx * (MaxTxs + 1), 0>> \o order_indices],
     [kind |-> "Manage"]}
      \cup (IF rare THEN {[kind |-> "None"]} ELSE {})

\* the redeemers a spent order comes with: Scoop or Cancel; among the rarer
\* transactions also none that parses
OrderRedeemerChoices(rare) ==
    {[kind |-> "Scoop"], [kind |-> "Cancel"]} \cup (IF rare THEN {[kind |-> "None"]} ELSE {})

\* what a transaction spends out of the snapshot `state`: the fee input, and
\* none or all of the pools, with none or all of the orders (among the rarer
\* transactions also the second order alone), or the settings alone; every
\* spent pool comes with the same redeemer, and so does every spent order
SpendChoices(state, rare) ==
    LET pool_inputs == {state.pools[i].input : i \in DOMAIN state.pools}
        order_inputs == {state.orders[i].input : i \in 1..Len(state.orders)}
        settings_inputs == {state.settings[i].input : i \in 1..Len(state.settings)}
        pool_choices == {{}, pool_inputs}
        spend(P, O, pool_redeemer, order_redeemer) ==
            LET inputs == sort({FeeInput} \cup P \cup O) IN
            [inputs |-> {FeeInput} \cup P \cup O,
             redeemers |-> [i \in 1..Len(inputs) |->
                              IF inputs[i] \in P THEN pool_redeemer
                              ELSE IF inputs[i] \in O THEN order_redeemer
                              ELSE [kind |-> "None"]]]
        indices(P, O) ==
            LET inputs == sort({FeeInput} \cup P \cup O)
                positions == sort({i \in 1..Len(inputs) : inputs[i] \in O})
            IN  [i \in 1..Len(positions) |-> positions[i] - 1]
    IN  UNION {{spend(P, O, pool_redeemer, order_redeemer) :
                    pool_redeemer \in IF P = {} THEN {[kind |-> "None"]}
                                      ELSE PoolRedeemerChoices(indices(P, O), rare),
                    order_redeemer \in IF O = {} THEN {[kind |-> "None"]}
                                       ELSE OrderRedeemerChoices(rare)} :
                P \in pool_choices,
                O \in {{}, order_inputs}
                        \cup {{state.orders[i].input} :
                                 i \in IF rare THEN {2} \cap DOMAIN state.orders ELSE {}}}
          \cup {spend(settings_inputs, {}, [kind |-> "None"], [kind |-> "None"])}

ILast(op, ret, slot, trace, scheduled, executed, changes, tx) ==
    [op |-> op, ret |-> ret, slot |-> slot, trace |-> trace, scheduled |-> scheduled,
     executed |-> executed, changes |-> changes, tx |-> tx, pre |-> history, pre_dao |-> dao,
     pre_published |-> published]

\* the indexer stops at the first error a handler returns
Running == ilast.ret # "Err"

\* the slots of the blocks that carry transactions: slot 0 carries none
BlockSlots == 1..(MaxSlot + 1)

\* the slots of the blocks handed over next: the latest slot, the one before
\* and the one after; over an empty history the slot after the point rolled
\* back to, or the first slot
SlotChoices ==
    IF DOMAIN history = {}
    THEN {IF ilast.op = "handle_rollback" THEN ilast.slot + 1 ELSE 1}
    ELSE {slot \in BlockSlots : slot - MaxOf(DOMAIN history) \in {-1, 0, 1}}

\* handle_onchain_tx_bytes after "And apply the new state": r is what the
\* transaction made of the snapshot of the slot
Persist(info, tx, updated, r) ==
    LET slot == info.slot
        reduced == [updated EXCEPT ![slot] = r.state]
        applies == ~is_empty(r.changes)
        p == prune_history(reduced, rollback_limit)
        prunes == p.pruned /\ info.number >= rollback_limit
        applied == IF applies THEN dao_apply_tx_changes(dao, r.changes) ELSE dao
        sent == IF applies THEN <<"apply_tx_changes", "send_replace">> ELSE << >>
    IN
    \E fail \in {"none"} \cup (IF applies THEN {"apply_tx_changes"} ELSE {})
                         \cup (IF prunes THEN {"prune_txos"} ELSE {}) :
       IF fail = "apply_tx_changes"
       THEN /\ history' = reduced
            /\ ilast' = ILast("handle_onchain_tx_bytes", "Err", slot,
                              <<"apply_tx_changes">>, r.scheduled, r.executed, r.changes, tx)
            /\ UNCHANGED <<dao, update, published>>
       ELSE
       /\ history' = p.slots
       /\ update' = IF applies THEN [slot |-> slot, state |-> r.state] ELSE update
       /\ published' = IF applies THEN published + 1 ELSE published
       /\ dao' = IF prunes /\ fail = "none"
                 THEN dao_prune_txos(applied, info.number - rollback_limit)
                 ELSE applied
       /\ ilast' = ILast("handle_onchain_tx_bytes",
                         IF fail = "none" THEN "Ok" ELSE "Err", slot,
                         sent \o (IF prunes THEN <<"prune_txos">> ELSE << >>),
                         r.scheduled, r.executed, r.changes, tx)

\* handle_onchain_tx_bytes from update_slot on
Reduce(info, tx, u) ==
    IF ~u.ok
    THEN /\ ilast' = ILast("handle_onchain_tx_bytes", "Err", info.slot, << >>, << >>, << >>,
                           << >>, << >>)
         /\ UNCHANGED <<history, dao, update, published>>
    ELSE Persist(info, tx, u.slots, reduce(u.slots[info.slot], tx, txs + 1, info))

\* handle_onchain_tx_bytes(info, raw_tx) for a transaction of the block at
\* some slot, whose number is `lag` behind its slot
Transaction(lag, rare) ==
    \E slot \in SlotChoices, spend \in SpendChoices(history_latest(history), rare) :
    \E outputs \in OutputChoices(spend.inputs, history_latest(history), rare) :
        Reduce([slot |-> slot, number |-> slot - lag],
               [inputs |-> spend.inputs, redeemers |-> spend.redeemers,
                outputs |-> outputs],
               history_update_slot(history, slot))

\* handle_onchain_tx_bytes(info, raw_tx); the block is number info.slot
HandleOnchainTx ==
    /\ Running
    /\ txs < MaxTxs
    /\ txs' = txs + 1
    /\ Transaction(0, FALSE)
    /\ UNCHANGED rollbacks
    /\ UNCHANGED indexerRest

\* handle_onchain_tx_bytes(info, raw_tx) on a chain whose first block is
\* number 0: the block at slot 1 is number 0, the one at slot 2 number 1
HandleOnchainTxFromZero ==
    /\ Running
    /\ txs < MaxTxs
    /\ txs' = txs + 1
    /\ Transaction(1, FALSE)
    /\ UNCHANGED rollbacks
    /\ UNCHANGED indexerRest

\* handle_onchain_tx_bytes(info, raw_tx) over the rarer transactions as well:
\* spends whose redeemer does not parse, an order spent beside one that is
\* not, new orders around a new pool, the settings replaced
HandleAnyOnchainTx ==
    /\ Running
    /\ txs < MaxTxs
    /\ txs' = txs + 1
    /\ Transaction(0, TRUE)
    /\ UNCHANGED rollbacks
    /\ UNCHANGED indexerRest

\* handle_rollback(Point::Specific { slot, .. })
HandleRollbackSpecific ==
    /\ Running
    /\ rollbacks < MaxRollbacks
    /\ rollbacks' = rollbacks + 1
    /\ \E slot \in Slots, fail \in {"none", "rollback"} :
        LET rolled == rollback_to_slot(history, slot).slots IN
        /\ history' = rolled
        /\ IF fail = "rollback"
           THEN /\ ilast' = ILast("handle_rollback", "Err", slot, <<"rollback">>, << >>, << >>,
                                  << >>, << >>)
                /\ UNCHANGED <<dao, update, published>>
           ELSE /\ dao' = dao_rollback(dao, slot)
                /\ update' = [slot |-> slot, state |-> history_latest(rolled)]
                /\ published' = published + 1
                /\ ilast' = ILast("handle_rollback", "Ok", slot, <<"rollback", "send_replace">>,
                                  << >>, << >>, << >>, << >>)
    /\ UNCHANGED txs
    /\ UNCHANGED indexerRest

\* handle_rollback(Point::Origin): reset, then the rollback of slot 0
HandleRollbackOrigin ==
    /\ Running
    /\ rollbacks < MaxRollbacks
    /\ rollbacks' = rollbacks + 1
    /\ \E fail \in {"none", "reset", "rollback"} :
        IF fail = "reset"
        THEN /\ ilast' = ILast("handle_rollback_origin", "Err", 0, <<"rollback">>, << >>, << >>,
                               << >>, << >>)
             /\ UNCHANGED <<history, dao, update, published>>
        ELSE
        /\ history' = rollback_to_origin(history)
        /\ IF fail = "rollback"
           THEN /\ dao' = dao_rollback(dao, 0)
                /\ ilast' = ILast("handle_rollback_origin", "Err", 0, <<"rollback", "rollback">>,
                                  << >>, << >>, << >>, << >>)
                /\ UNCHANGED <<update, published>>
           ELSE /\ dao' = dao_rollback(dao_rollback(dao, 0), 0)
                /\ update' = [slot |-> 0, state |-> history_latest(rollback_to_origin(history))]
                /\ published' = published + 1
                /\ ilast' = ILast("handle_rollback_origin", "Ok", 0,
                                  <<"rollback", "rollback", "send_replace">>, << >>, << >>, << >>,
                                  << >>)
    /\ UNCHANGED txs
    /\ UNCHANGED indexerRest

InitIndexer ==
    /\ HistNew
    /\ BuilderIdle
    /\ ValueIdle
    /\ ValidationIdle
    /\ IndexerNew
    /\ LogNew
    /\ CursorNew
    /\ DaoNew
    /\ ScooperIdle
    /\ LockIdle

NextIndexer == HandleOnchainTx \/ HandleRollbackSpecific \/ HandleRollbackOrigin

SpecIndexer == InitIndexer /\ [][NextIndexer]_vars

\* the indexer on a chain whose first block is number 0
NextIndexerFromZero ==
    HandleOnchainTxFromZero \/ HandleRollbackSpecific \/ HandleRollbackOrigin

SpecIndexerFromZero == InitIndexer /\ [][NextIndexerFromZero]_vars

\* the reducer over the rarer transactions as well
NextReducer == HandleAnyOnchainTx

SpecReducer == InitIndexer /\ [][NextReducer]_vars

(***************************************************************************)
(* Claims about SundaeV3Indexer                                            *)
(***************************************************************************)
\* handle_onchain_tx_bytes was the last call and got past update_slot
TxReduced == ilast.op = "handle_onchain_tx_bytes" /\ ilast.tx # << >>

\* C17: when one transaction spends more than one pool with a PoolScoop
\* redeemer while settings are known, exactly one scoop is executed, the last
\* one scheduled, and the orders it lists are marked as scooped
C17_OneScoopOfMany ==
    (TxReduced /\ Len(ilast.scheduled) > 1) =>
        /\ Len(ilast.executed) = 1
        /\ ilast.executed[1].ident = ilast.scheduled[Len(ilast.scheduled)]

\* a transaction scheduled two scoops
C17_TwoScheduled == TxReduced /\ Len(ilast.scheduled) > 1

\* a transaction scheduled one scoop, and it was executed
C17_OneScheduled ==
    /\ TxReduced
    /\ Len(ilast.scheduled) = 1
    /\ Len(ilast.executed) = 1
    /\ \E i \in 1..Len(ilast.executed[1].log) : ilast.executed[1].log[i].res = "Ok"

\* the transaction creates and spends no TXO the indexer tracks: no output at
\* a pool, order or settings address, no input recorded in the snapshot it is
\* applied to
TouchesNothing ==
    LET before == history_latest(ilast.pre)
        tracked_inputs ==
            {before.pools[i].input : i \in DOMAIN before.pools}
              \cup {before.orders[i].input : i \in 1..Len(before.orders)}
              \cup {before.settings[i].input : i \in 1..Len(before.settings)}
    IN  /\ \A i \in 1..Len(ilast.tx.outputs) : ilast.tx.outputs[i].kind = "other"
        /\ ilast.tx.inputs \cap tracked_inputs = {}

\* the effects of the last call among `names`, in order
Effects(names) == SelectSeq(ilast.trace, LAMBDA e : e \in names)

\* C18: an update is published for a transaction only after apply_tx_changes
\* for that transaction returned Ok, and a transaction that creates and spends
\* no tracked TXO neither calls apply_tx_changes nor publishes anything
C18_PublishAfterPersist ==
    TxReduced =>
        /\ published # ilast.pre_published =>
              Effects({"apply_tx_changes", "send_replace"})
                = <<"apply_tx_changes", "send_replace">>
        /\ TouchesNothing =>
              /\ Effects({"apply_tx_changes", "send_replace"}) = << >>
              /\ published = ilast.pre_published

\* a transaction was persisted and then published
C18_Witness ==
    /\ TxReduced
    /\ ilast.ret = "Ok"
    /\ published = ilast.pre_published + 1
    /\ Effects({"apply_tx_changes", "send_replace"}) = <<"apply_tx_changes", "send_replace">>

\* a transaction that touches nothing tracked went by without a publication
C18_WitnessNothing ==
    /\ TxReduced
    /\ TouchesNothing
    /\ ilast.ret = "Ok"
    /\ DOMAIN ilast.pre # {}
    /\ published = ilast.pre_published

\* apply_tx_changes failed in the last call
ApplyFailed ==
    /\ TxReduced
    /\ ilast.ret = "Err"
    /\ ilast.trace = <<"apply_tx_changes">>

\* C19: when apply_tx_changes fails, handle_onchain_tx_bytes returns the
\* error, nothing is published, and latest() is the snapshot from before the
\* transaction
C19_FailedPersistAborts ==
    ApplyFailed =>
        /\ published = ilast.pre_published
        /\ history_latest(history) = history_latest(ilast.pre)

\* apply_tx_changes failed and nothing was published
C19_Failed == ApplyFailed /\ published = ilast.pre_published

\* the last call was handle_rollback(Specific{slot: s}) and returned Ok
RolledBack == ilast.op = "handle_rollback" /\ ilast.ret = "Ok"

\* the table after dao.rollback(s) on `rows`: the rows created after s are
\* gone, the rows spent after s are unspent, every other row is as it was
RowsRolledBack(rows, s) ==
    /\ DOMAIN dao = {id \in DOMAIN rows : rows[id].created_slot <= s}
    /\ \A id \in DOMAIN dao :
        /\ dao[id].txo = rows[id].txo
        /\ dao[id].created_slot = rows[id].created_slot
        /\ IF rows[id].spent_slot # Null /\ rows[id].spent_slot <= s
           THEN /\ dao[id].spent_slot = rows[id].spent_slot
                /\ dao[id].spent_height = rows[id].spent_height
           ELSE /\ dao[id].spent_slot = Null
                /\ dao[id].spent_height = Null

\* C20: after handle_rollback(Specific{slot: s}) returned Ok the history holds
\* no snapshot of a slot after s, dao.rollback(s) was applied, the update
\* published carries slot s and the state latest() returns, and no pool first
\* recorded after slot s is present
C20_RollbackSpecific ==
    RolledBack =>
        LET s == ilast.slot
            state == history_latest(history)
        IN  /\ \A slot \in DOMAIN history : slot <= s
            /\ RowsRolledBack(ilast.pre_dao, s)
            /\ published = ilast.pre_published + 1
            /\ update = [slot |-> s, state |-> state]
            /\ \A ident \in DOMAIN state.pools : state.pools[ident].slot <= s

\* a rollback dropped a snapshot holding a pool recorded after the slot, and
\* un-spent or deleted rows of the table
C20_Witness ==
    /\ RolledBack
    /\ \E slot \in DOMAIN ilast.pre :
        /\ slot > ilast.slot
        /\ \E ident \in DOMAIN ilast.pre[slot].pools : ilast.pre[slot].pools[ident].slot > ilast.slot
    /\ DOMAIN history # {}
    /\ \E id \in DOMAIN ilast.pre_dao :
        ilast.pre_dao[id].spent_slot # Null /\ ilast.pre_dao[id].spent_slot > ilast.slot

\* the last call was handle_rollback(Origin) and returned Ok
RolledBackToOrigin == ilast.op = "handle_rollback_origin" /\ ilast.ret = "Ok"

\* C21: after handle_rollback(Origin) returned Ok the history holds no snapshot,
\* dao.rollback(0) was applied, and the update published carries the empty
\* state: no pools, no orders, no settings
C21_RollbackOrigin ==
    RolledBackToOrigin =>
        /\ DOMAIN history = {}
        /\ RowsRolledBack(ilast.pre_dao, 0)
        /\ published = ilast.pre_published + 1
        /\ DOMAIN update.state.pools = {}
        /\ update.state.orders = << >>
        /\ update.state.settings = << >>

\* a rollback to the origin dropped snapshots holding pools and removed rows
C21_Witness ==
    /\ RolledBackToOrigin
    /\ DOMAIN history_latest(ilast.pre).pools # {}
    /\ \E id \in DOMAIN ilast.pre_dao : ilast.pre_dao[id].created_slot > 0

(***************************************************************************)
(* Restart: SundaeV3Indexer::load over SqliteSundaeV3Dao::load_txos        *)
(***************************************************************************)
\* ORDER BY created_slot, tx_id, txo_index over a set of row ids
RECURSIVE order_by(_, _)
order_by(rows, ids) ==
    IF ids = {} THEN << >>
    ELSE LET first == CHOOSE id \in ids : \A other \in ids :
                        \/ rows[id].created_slot < rows[other].created_slot
                        \/ /\ rows[id].created_slot = rows[other].created_slot
                           /\ id <= other
         IN  <<first>> \o order_by(rows, ids \ {first})

\* load_txos: the rows with spent_slot IS NULL as PersistedTxo, in order
load_txos(rows) ==
    LET ids == order_by(rows, {id \in DOMAIN rows : rows[id].spent_slot = Null}) IN
    [i \in 1..Len(ids) |->
        [txo_id |-> ids[i], txo_type |-> rows[ids[i]].txo_type,
         created_slot |-> rows[ids[i]].created_slot, txo |-> rows[ids[i]].txo]]

\* the loop of load over the loaded TXOs: the snapshot it builds
RECURSIVE load_loop(_, _)
load_loop(txos, state) ==
    IF txos = << >> THEN state
    ELSE LET txo == Head(txos)
             c == [input |-> txo.txo_id, output |-> txo.txo]
         IN  load_loop(Tail(txos),
                CASE txo.txo_type = "pool" ->
                        [state EXCEPT !.pools =
                            (txo.txo.datum.ident :> NewPool(c, txo.created_slot)) @@ @]
                  [] txo.txo_type = "order" ->
                        [state EXCEPT !.orders = Append(@, NewOrder(c, txo.created_slot))]
                  [] txo.txo_type = "settings" ->
                        [state EXCEPT !.settings = <<NewSettings(c, txo.created_slot)>>])

\* load: the slot and the snapshot rebuilt from the table
load(rows) ==
    LET txos == load_txos(rows) IN
    [slot |-> IF txos = << >> THEN 0
              ELSE MaxOf({txos[i].created_slot : i \in 1..Len(txos)}),
     state |-> load_loop(txos, DefaultState)]

\* every call so far returned Ok, and at least one was made
Handled == ilast.op # "none" /\ ilast.ret = "Ok"

\* the pools by ident and input, the orders by input, and the settings
Summary(state) ==
    [pools |-> [ident \in DOMAIN state.pools |-> state.pools[ident].input],
     orders |-> {state.orders[i].input : i \in 1..Len(state.orders)},
     settings |-> state.settings]

\* C22: after any sequence of successfully handled transactions and rollbacks
\* the snapshot load() rebuilds from load_txos() has the pools (by ident and
\* input), the orders (by input) and the settings of latest()
C22_RecoveryEquivalence ==
    Handled => Summary(load(dao).state) = Summary(history_latest(history))


(***************************************************************************)
(* Faults inside a scoop                                                   *)
(***************************************************************************)
\* the last call executed a scoop
Scooped == TxReduced /\ Len(ilast.executed) = 1

\* what became of the orders the executed scoop lists, in order
ScoopLog == ilast.executed[1].log

\* the order indices the pool redeemer of the last transaction lists
ScoopOrders ==
    ilast.tx.redeemers[CHOOSE i \in DOMAIN ilast.tx.redeemers :
                            ilast.tx.redeemers[i].kind = "PoolScoop"].input_order

\* something went wrong inside the executed scoop
ScoopFault ==
    /\ Scooped
    /\ \/ \E i \in 1..Len(ScoopLog) : ScoopLog[i].res # "Ok"
       \/ ilast.executed[1].validate # "Ok"
       \/ ilast.executed[1].observed # "as expected"

\* the last call failed in the storage call `call`
StorageFailed(call) ==
    ilast.ret = "Err" /\ ilast.trace # << >> /\ ilast.trace[Len(ilast.trace)] = call

\* the inputs the snapshot `state` tracks
TrackedInputs(state) ==
    {state.pools[i].input : i \in DOMAIN state.pools}
      \cup {state.orders[i].input : i \in 1..Len(state.orders)}
      \cup {state.settings[i].input : i \in 1..Len(state.settings)}

\* the tracked outputs the last transaction created
TrackedCreated ==
    {c \in {Created(ilast.tx, txs)[i] : i \in 1..Len(ilast.tx.outputs)} :
        c.output.kind \in Tracked}

\* C23: a fault inside a scoop (a bad order index, an unknown order, an order
\* failing validate_order, an apply_order error, a wrong order count, a
\* mismatch with the observed pool) never aborts the transaction: every order
\* the scoop lists is processed, spent entries are removed and created outputs
\* inserted, and unless a storage call fails the changes are persisted and
\* the handler returns Ok
C23_ScoopFaultsSkipped ==
    ScoopFault =>
        /\ [i \in 1..Len(ScoopLog) |-> ScoopLog[i].order_index] = ScoopOrders
        /\ ilast.ret = "Ok" \/ StorageFailed("apply_tx_changes") \/ StorageFailed("prune_txos")
        /\ TrackedInputs(history_latest(history)) \cap ilast.tx.inputs = {}
        /\ \A c \in TrackedCreated : c.input \in TrackedInputs(history_latest(history))
        /\ ~StorageFailed("apply_tx_changes") =>
              /\ Head(ilast.trace) = "apply_tx_changes"
              /\ \A c \in TrackedCreated :
                    c.input \in DOMAIN dao /\ dao[c.input].spent_slot = Null
              /\ \A input \in TrackedInputs(history_latest(ilast.pre)) \cap ilast.tx.inputs :
                    input \in DOMAIN dao /\ dao[input].spent_slot = ilast.slot

\* a scoop met a bad order index, an unknown order, an order failing
\* validate_order and an order failing apply_order, applied the order after
\* them, counted too few orders and found another pool than the one on chain,
\* and the transaction was handled to the end
C23_Witness ==
    /\ ScoopFault
    /\ ilast.ret = "Ok"
    /\ \E i, j, k, l, m \in 1..Len(ScoopLog) :
          /\ i < j /\ j < k /\ k < l /\ l < m
          /\ ScoopLog[i].res = "invalid order index"
          /\ ScoopLog[j].res = "unrecognized order"
          /\ ScoopLog[k].res = "GivesZeroTokens"
          /\ ScoopLog[l].res \in ApplyOrderError
          /\ ScoopLog[m].res = "Ok"
    /\ ilast.executed[1].validate = "WrongOrderCount"
    /\ ilast.executed[1].observed = "incorrect"
    /\ TrackedCreated # {}

(***************************************************************************)
(* handle_onchain_tx_bytes statement by statement, next to a reader of the *)
(* shared Arc<Mutex<SundaeV3HistoricalState>>                              *)
(***************************************************************************)
\* mutant: the guard is dropped once the spent pools are removed
holds_lock_until_retain(position) == position \in {"update_slot", "retain_pools"}

\* the MutexGuard `history` lives from `self.state.lock().await` to the
\* return of handle_onchain_tx_bytes
holds_lock(position) == position # "idle"

\* tokio::sync::Mutex: free when neither the handler nor the reader holds it
MutexFree == ~holds_lock(pc) /\ reader = "out"

\* state.pools.retain(..): the pools whose input is not spent
retain_pools(state, spent_inputs) ==
    [state EXCEPT !.pools =
        [ident \in {i \in DOMAIN state.pools :
                        binary_search(spent_inputs, state.pools[i].input) = -1}
            |-> state.pools[ident]]]

\* state.orders.retain(..): the orders whose input is not spent
retain_orders(state, spent_inputs) ==
    [state EXCEPT !.orders =
        SelectSeq(state.orders, LAMBDA o : binary_search(spent_inputs, o.input) = -1)]

\* "remove old settings too"
remove_settings(state, spent_inputs) ==
    IF state.settings # << >> /\ binary_search(spent_inputs, state.settings[1].input) # -1
    THEN [state EXCEPT !.settings = << >>]
    ELSE state

\* "And apply the new state": pools.append, orders.append, settings
append_new(state, created, slot) ==
    [pools |-> updated_pools(created, slot) @@ state.pools,
     orders |-> state.orders \o new_orders(created, slot),
     settings |-> IF new_settings(created, slot) # << >> THEN new_settings(created, slot)
                  ELSE state.settings]

\* the locals of a handler that took the lock for the transaction tx
Inflight(info, tx, hash, u) ==
    [info |-> info, tx |-> tx, hash |-> hash, spent_inputs |-> sort(tx.inputs),
     before |-> history_latest(history),
     reduced |-> IF u.ok THEN <<reduce(u.slots[info.slot], tx, hash, info)>> ELSE << >>]

\* the handler moves on to the statement `next`
Goto(next) == pc' = next /\ UNCHANGED <<inflight, reader, observed>>

\* `let mut history = self.state.lock().await` for the next transaction
TxLock ==
    /\ pc = "idle"
    /\ MutexFree
    /\ Running
    /\ txs < MaxTxs
    /\ txs' = txs + 1
    /\ \E slot \in SlotChoices, spend \in SpendChoices(history_latest(history), FALSE) :
       \E outputs \in OutputChoices(spend.inputs, history_latest(history), FALSE) :
            inflight' = Inflight([slot |-> slot, number |-> slot],
                                 [inputs |-> spend.inputs, redeemers |-> spend.redeemers,
                                  outputs |-> outputs],
                                 txs + 1, history_update_slot(history, slot))
    /\ pc' = "update_slot"
    /\ UNCHANGED <<history, dao, update, published, rollbacks, ilast, reader, observed>>
    /\ UNCHANGED lockRest

\* `let state = history.update_slot(slot)?`
TxUpdateSlot ==
    /\ pc = "update_slot"
    /\ LET u == history_update_slot(history, inflight.info.slot) IN
       IF ~u.ok
       THEN /\ ilast' = ILast("handle_onchain_tx_bytes", "Err", inflight.info.slot, << >>,
                              << >>, << >>, << >>, << >>)
            /\ Goto("idle")
            /\ UNCHANGED history
       ELSE /\ history' = u.slots
            /\ Goto("retain_pools")
            /\ UNCHANGED ilast
    /\ UNCHANGED <<dao, update, published, txs, rollbacks>>
    /\ UNCHANGED lockRest

\* one statement that changes the snapshot of the slot in place
Mutate_state(next, changed) ==
    /\ history' = [history EXCEPT ![inflight.info.slot] = changed]
    /\ Goto(next)
    /\ UNCHANGED <<dao, update, published, txs, rollbacks, ilast>>
    /\ UNCHANGED lockRest

\* state.pools.retain(..)
TxRetainPools ==
    /\ pc = "retain_pools"
    /\ Mutate_state("retain_orders", retain_pools(history[inflight.info.slot], inflight.spent_inputs))

\* the replay of the scoop, which leaves the snapshot alone, and state.orders.retain(..)
TxRetainOrders ==
    /\ pc = "retain_orders"
    /\ Mutate_state("remove_settings", retain_orders(history[inflight.info.slot], inflight.spent_inputs))

\* "remove old settings too"
TxRemoveSettings ==
    /\ pc = "remove_settings"
    /\ Mutate_state("append", remove_settings(history[inflight.info.slot], inflight.spent_inputs))

\* "And apply the new state"
TxAppend ==
    /\ pc = "append"
    /\ Mutate_state("persist", append_new(history[inflight.info.slot],
                                          Created(inflight.tx, inflight.hash),
                                          inflight.info.slot))

\* apply_tx_changes, send_replace, prune_history, prune_txos and the return,
\* which drops the guard
TxPersist ==
    /\ pc = "persist"
    /\ Persist(inflight.info, inflight.tx, history, inflight.reduced[1])
    /\ Goto("idle")
    /\ UNCHANGED <<txs, rollbacks>>
    /\ UNCHANGED lockRest

\* a reader takes the mutex
ReaderLock ==
    /\ MutexFree
    /\ reader' = "locked"
    /\ observed' = NoObservation
    /\ UNCHANGED <<pc, inflight>>
    /\ UNCHANGED indexerVars
    /\ UNCHANGED lockRest

\* the reader calls latest() under the lock
ReaderLatest ==
    /\ reader = "locked"
    /\ ~observed.read
    /\ observed' = [read |-> TRUE, state |-> history_latest(history)]
    /\ UNCHANGED <<pc, inflight, reader>>
    /\ UNCHANGED indexerVars
    /\ UNCHANGED lockRest

\* the reader drops its guard and keeps what it read
ReaderUnlock ==
    /\ reader = "locked"
    /\ observed.read
    /\ reader' = "out"
    /\ UNCHANGED <<pc, inflight, observed>>
    /\ UNCHANGED indexerVars
    /\ UNCHANGED lockRest

InitLock ==
    /\ HistNew
    /\ BuilderIdle
    /\ ValueIdle
    /\ ValidationIdle
    /\ IndexerNew
    /\ LogNew
    /\ CursorNew
    /\ DaoNew
    /\ ScooperIdle
    /\ LockIdle

NextLock ==
    \/ TxLock
    \/ TxUpdateSlot
    \/ TxRetainPools
    \/ TxRetainOrders
    \/ TxRemoveSettings
    \/ TxAppend
    \/ TxPersist
    \/ ReaderLock
    \/ ReaderLatest
    \/ ReaderUnlock

SpecLock == InitLock /\ [][NextLock]_vars

\* the snapshot latest() shows once the transaction in flight is reduced
Reduced == IF inflight.reduced = << >> THEN inflight.before ELSE inflight.reduced[1].state

\* C24: a reader that takes the HistoricalState mutex never observes a
\* partially reduced transaction: what latest() shows it is the snapshot from
\* before the transaction in flight or the one with all of its removals and
\* insertions, the handler stands at no statement while the reader holds the
\* lock, and the snapshot the handler built in place is the reduced one
C24_ReaderSeesWholeTransactions ==
    /\ reader = "locked" =>
          /\ pc = "idle"
          /\ observed.read => observed.state \in {inflight.before, Reduced}
    /\ pc = "persist" => history_latest(history) = Reduced

\* the reader read the snapshot a transaction left behind that both removed
\* and inserted entries
C24_Witness ==
    /\ reader = "locked"
    /\ observed.read
    /\ observed.state = Reduced
    /\ inflight.reduced # << >>
    /\ inflight.reduced[1].changes.spent_txos # << >>
    /\ inflight.reduced[1].changes.created_txos # << >>
    /\ observed.state # inflight.before

(***************************************************************************)
(* Scooper::log_changes (src/src/scooper.rs): the scoop log                *)
(***************************************************************************)
RECURSIVE gcd(_, _)
gcd(a, b) == IF b = 0 THEN a ELSE gcd(b, a % b)

\* num.to_f64() / den.to_f64() of two small non-negative integers, kept as the
\* reduced fraction: two quotients are the same f64 exactly when the fractions
\* are equal. A zero divisor stands for the f64::MAX swap_price puts there
f64_div(num, den) ==
    IF den = 0 THEN <<1, 0>> ELSE <<num \div gcd(num, den), den \div gcd(num, den)>>

\* a PoolError; the prices are those of OutOfRange
PoolError(error, swap, pool) == [error |-> error, swap_price |-> swap, pool_price |-> pool]

\* the Err of estimate_whether_in_range: Empty, or OutOfRange with the price
\* of the swap (1.0 / swap_price for BtoA) and the price of the pool
range_error(od, pd, pool_value) ==
    IF estimate_whether_in_range(od, pd, pool_value) = "Empty"
    THEN PoolError("Empty", <<0, 1>>, <<0, 1>>)
    ELSE PoolError("OutOfRange",
                   IF swap_price(od).direction = "AtoB"
                   THEN f64_div(swap_price(od).gives, swap_price(od).takes)
                   ELSE f64_div(swap_price(od).takes, swap_price(od).gives),
                   f64_div(get_pool_price(pd, pool_value).qa,
                           get_pool_price(pd, pool_value).qb))

\* what the loop of Scooper::validate_order finds for one pool: "Ok", or the
\* error of validate_order_for_pool, or that of estimate_whether_in_range
for_pool(order, pool) ==
    IF validate_order_for_pool(order.datum, pool.pool_datum) # "Ok"
    THEN PoolError(validate_order_for_pool(order.datum, pool.pool_datum), <<0, 1>>, <<0, 1>>)
    ELSE IF estimate_whether_in_range(order.datum, pool.pool_datum, pool.value) # "Ok"
    THEN range_error(order.datum, pool.pool_datum, pool.value)
    ELSE PoolError("Ok", <<0, 1>>, <<0, 1>>)

\* OrderValidity: Valid { pools } or Invalid { reason }, the reason NoPools,
\* ValueError(error) or PoolErrors(errors)
OrderValidity(validity, reason, idents, value_error, errors) ==
    [validity |-> validity, reason |-> reason, pools |-> idents,
     value_error |-> value_error, errors |-> errors]

\* Scooper::validate_order
scooper_validate_order(order, pools) ==
    LET valid_pools == {ident \in DOMAIN pools : for_pool(order, pools[ident]).error = "Ok"}
        failing == {ident \in DOMAIN pools :
                        for_pool(order, pools[ident]).error \notin {"Ok", "IdentMismatch"}}
    IN  IF validate_order_value(order.datum, order.value).res # "Ok"
        THEN OrderValidity("Invalid", "ValueError", << >>,
                           validate_order_value(order.datum, order.value), EmptyMap)
        ELSE IF valid_pools # {}
        THEN OrderValidity("Valid", "none", sort(valid_pools), ValueOk, EmptyMap)
        ELSE IF failing # {}
        THEN OrderValidity("Invalid", "PoolErrors", << >>, ValueOk,
                           [ident \in failing |-> for_pool(order, pools[ident])])
        ELSE OrderValidity("Invalid", "NoPools", << >>, ValueOk, EmptyMap)

\* `matching` of validity_changed: for two OutOfRange errors whether the swap
\* prices differ, for any other two errors whether they differ
matching(old_error, new_error) ==
    IF old_error.error = "OutOfRange" /\ new_error.error = "OutOfRange"
    THEN old_error.swap_price # new_error.swap_price
    ELSE old_error # new_error

\* Scooper::validity_changed
validity_changed(old, now) ==
    IF old.reason = "PoolErrors" /\ now.reason = "PoolErrors"
    THEN IF Cardinality(DOMAIN old.errors) # Cardinality(DOMAIN now.errors) THEN TRUE
         ELSE \E ident \in DOMAIN old.errors :
                 \/ ident \notin DOMAIN now.errors
                 \/ ~matching(old.errors[ident], now.errors[ident])
    ELSE old # now

\* PoolSummary of a pool
PoolSummary(pool) ==
    [assets |-> <<SingletonValue(pool.pool_datum.assets[1],
                                 get(pool.value, pool.pool_datum.assets[1])),
                  SingletonValue(pool.pool_datum.assets[2],
                                 get(pool.value, pool.pool_datum.assets[2]))>>,
     liquidity |-> pool.pool_datum.circulating_lp,
     protocol_fees |-> pool.pool_datum.protocol_fees]

\* an OrderState or PoolState written to the log; the slot is left out
Logged(key, action) == [key |-> key, action |-> action]

\* the updates of a pass over the new map (now) against the reported one
\* (old), in the order they are pushed: Added or Changed by ascending key of
\* now, then Removed by ascending key of old; `changed` holds the keys of both
\* maps whose entries the comparison of the pass found changed
updates_of(old, now, changed) ==
    LET new_keys == sort(DOMAIN now)
        old_keys == sort(DOMAIN old)
        touched == SelectSeq(new_keys, LAMBDA key : key \notin DOMAIN old \/ key \in changed)
        gone == SelectSeq(old_keys, LAMBDA key : key \notin DOMAIN now)
    IN  [i \in 1..Len(touched) |->
            Logged(touched[i], IF touched[i] \in DOMAIN old THEN "Changed" ELSE "Added")]
        \o [i \in 1..Len(gone) |-> Logged(gone[i], "Removed")]

\* new_orders of log_orders: the validity of every order of the snapshot
new_orders_of(state) ==
    [input \in {state.orders[i].input : i \in 1..Len(state.orders)} |->
        scooper_validate_order(
            state.orders[MaxOf({i \in 1..Len(state.orders) : state.orders[i].input = input})],
            state.pools)]

\* new_pools of log_pools: the summary of every pool of the snapshot
new_pools_of(state) == [ident \in DOMAIN state.pools |-> PoolSummary(state.pools[ident])]

\* PartialEq of PoolSummary, negated
summary_changed(old, now) == old # now

\* Scooper::log_changes: log_orders, then log_pools; a failure of
\* write_updates is only warned about
log_changes(state) ==
    /\ scooper_orders' = new_orders_of(state)
    /\ scooper_pools' = new_pools_of(state)
    /\ logged' = [passes |-> IF logged.passes < 2 THEN logged.passes + 1 ELSE 2,
                  again |-> logged.passes > 0 /\ state = logged.state,
                  state |-> state,
                  pre_pools |-> scooper_pools, pre_orders |-> scooper_orders,
                  order_updates |->
                      updates_of(scooper_orders, new_orders_of(state),
                                 {input \in DOMAIN scooper_orders \cap DOMAIN new_orders_of(state) :
                                     validity_changed(scooper_orders[input],
                                                      new_orders_of(state)[input])}),
                  pool_updates |->
                      updates_of(scooper_pools, new_pools_of(state),
                                 {ident \in DOMAIN scooper_pools \cap DOMAIN new_pools_of(state) :
                                     summary_changed(scooper_pools[ident],
                                                     new_pools_of(state)[ident])})]

(***************************************************************************)
(* Scooper::run (src/src/scooper.rs) on the watch channel of the indexer   *)
(***************************************************************************)
\* the version of the watch channel: send_replace adds one
version == published

\* mutant: the Receiver wakes up only when it is two versions behind
changed_ready_late(channel, receiver) == channel > receiver + 1

\* watch::Receiver::changed() is ready when the channel holds a version the
\* Receiver has not marked as seen
changed_ready(channel, receiver) == channel # receiver

\* `res = self.sundaev3.changed()` returns Ok and marks the version as seen
ScooperChanged ==
    /\ at = "changed"
    /\ changed_ready(version, seen)
    /\ seen' = version
    /\ at' = "sleep"
    /\ UNCHANGED processed
    /\ UNCHANGED scooperRest

\* tokio::time::sleep(250 ms) is over
ScooperSleep ==
    /\ at = "sleep"
    /\ at' = "borrow"
    /\ UNCHANGED <<seen, processed>>
    /\ UNCHANGED scooperRest

\* borrow_and_update().clone(), then log_changes(update.slot, &update.state)
ScooperBorrow ==
    /\ at = "borrow"
    /\ seen' = version
    /\ processed' = [version |-> version, skipped |-> version - processed.version - 1,
                     slot |-> update.slot]
    /\ at' = "changed"
    /\ log_changes(update.state)
    /\ UNCHANGED <<histVars, builderVars, valueVars, validationVars, indexerVars, lockVars,
                   daoVars, cursorVars>>

\* self.broadcaster.send_replace(SundaeV3Update { slot, .. }) by a handler of
\* the indexer: the channel holds the new update, whatever it held before
Publish ==
    /\ published < MaxPublished
    /\ \E slot \in Slots : update' = [slot |-> slot, state |-> history_latest(history)]
    /\ published' = published + 1
    /\ UNCHANGED <<history, dao, txs, rollbacks, ilast>>
    /\ UNCHANGED indexerRest

ScooperStep == ScooperChanged \/ ScooperSleep \/ ScooperBorrow

InitScooper ==
    /\ HistNew
    /\ BuilderIdle
    /\ ValueIdle
    /\ ValidationIdle
    /\ IndexerNew
    /\ LogNew
    /\ CursorNew
    /\ DaoNew
    /\ LockIdle
    /\ ScooperIdle

NextScooper ==
    \/ Publish
    \/ ScooperChanged
    \/ ScooperSleep
    \/ ScooperBorrow

\* the runtime schedules the task of Scooper::run again and again, and its
\* sleep ends; nothing makes the indexer publish
SpecScooper == InitScooper /\ [][NextScooper]_vars /\ WF_vars(ScooperStep)

\* the versions the indexer publishes
Versions == 1..MaxPublished

\* C25: under fair scheduling and without cancellation, for every snapshot the
\* indexer publishes the scoop-log consumer eventually processes that
\* snapshot or one published later
C25_EveryUpdateProcessed ==
    \A v \in Versions : (published >= v) ~> (processed.version >= v)

\* the consumer slept through two publications and processed the third
C25_Witness ==
    /\ processed.version = published
    /\ processed.skipped >= 2
    /\ at = "changed"

(***************************************************************************)
(* SqliteSundaeV3Dao called directly (src/src/persistence/sqlite.rs)       *)
(***************************************************************************)
\* the TXO keys (tx_id, txo_index) and the datum hashes handed to the DAO
TxoIds == 1..MaxTxos

\* the block heights handed to the DAO: the block of slot s has height s
Heights == 0..(MaxSlot + 1)

\* PRIMARY KEY(tx_id, txo_index) of sundae_v3_txos: a plain INSERT fails when
\* a row to insert has the key of a stored row or of an earlier row of the batch
primary_key_conflict(rows, created) ==
    \/ \E i \in 1..Len(created) : created[i].txo_id \in DOMAIN rows
    \/ \E i, j \in 1..Len(created) : i < j /\ created[i].txo_id = created[j].txo_id

\* INSERT INTO sundae_datums .. ON CONFLICT DO UPDATE SET created_slot =
\* excluded.created_slot, row by row
RECURSIVE upsert_datums(_, _)
upsert_datums(rows, metadata_datums) ==
    IF metadata_datums = << >> THEN rows
    ELSE LET datum == Head(metadata_datums)
             row == IF datum.hash \in DOMAIN rows
                    THEN [rows[datum.hash] EXCEPT !.created_slot = datum.created_slot]
                    ELSE [datum |-> datum.datum, created_slot |-> datum.created_slot]
         IN  upsert_datums((datum.hash :> row) @@ rows, Tail(metadata_datums))

\* DELETE FROM sundae_datums WHERE created_slot > slot
rollback_datums(rows, slot) ==
    [hash \in {h \in DOMAIN rows : ~(rows[h].created_slot > slot)} |-> rows[hash]]

\* load_datums: SELECT hash, datum, created_slot FROM sundae_datums ORDER BY
\* created_slot, hash
load_datums(rows) ==
    LET rank(hash) == (rows[hash].created_slot * (MaxTxos + 1)) + hash
        ordered == sort({rank(hash) : hash \in DOMAIN rows})
    IN  [i \in 1..Len(ordered) |->
            LET hash == CHOOSE h \in DOMAIN rows : rank(h) = ordered[i] IN
            [hash |-> hash, datum |-> rows[hash].datum,
             created_slot |-> rows[hash].created_slot]]

\* the two tables
Tables(txos, datums) == [txos |-> txos, datums |-> datums]

\* mutant: what the statements did before the error stays in the tables
transaction_kept(before, now) == now

\* a sqlx Transaction dropped without commit rolls back: the tables are what
\* they were at begin()
transaction_dropped(before, now) == before

\* what a DAO call returns, the statement that failed, and the tables it leaves
Returned(ret, failed, tables) == [ret |-> ret, failed |-> failed, tables |-> tables]

\* apply_tx_changes after begin(): the INSERT, the UPDATEs, the upsert and the
\* commit, of which `fault` fails; inserted, stamped and upserted are the
\* tables after each of the three kinds of statement
apply_statements(before, changes, fault, inserted, stamped, upserted) ==
    IF changes.created_txos # << >> /\ fault = "insert"
    THEN Returned("Err", "insert", transaction_dropped(before, before))
    ELSE IF primary_key_conflict(before.txos, changes.created_txos)
    THEN Returned("Err", "primary key", transaction_dropped(before, before))
    ELSE IF changes.spent_txos # << >> /\ fault = "update"
    THEN Returned("Err", "update", transaction_dropped(before, inserted))
    ELSE IF changes.metadata_datums # << >> /\ fault = "upsert"
    THEN Returned("Err", "upsert", transaction_dropped(before, stamped))
    ELSE IF fault = "commit"
    THEN Returned("Err", "commit", transaction_dropped(before, upserted))
    ELSE Returned("Ok", "none", upserted)

\* SqliteSundaeV3Dao::apply_tx_changes
apply_tx_changes(before, changes, fault) ==
    IF is_empty(changes) THEN Returned("Ok", "none", before)
    ELSE IF fault = "begin" THEN Returned("Err", "begin", before)
    ELSE apply_statements(
            before, changes, fault,
            Tables(dao_apply_tx_changes(before.txos, [changes EXCEPT !.spent_txos = << >>]),
                   before.datums),
            Tables(dao_apply_tx_changes(before.txos, changes), before.datums),
            Tables(dao_apply_tx_changes(before.txos, changes),
                   upsert_datums(before.datums, changes.metadata_datums)))

\* mutant: the rows created after slot stay
rollback_keep_created(before, slot, fault) ==
    IF fault # "none" THEN Returned("Err", fault, transaction_dropped(before, before))
    ELSE Returned("Ok", "none",
                  Tables([id \in DOMAIN before.txos |->
                            IF before.txos[id].spent_slot > slot
                            THEN [before.txos[id] EXCEPT !.spent_slot = Null,
                                                         !.spent_height = Null]
                            ELSE before.txos[id]],
                         rollback_datums(before.datums, slot)))

\* SqliteSundaeV3Dao::rollback: the three statements in one transaction
rollback(before, slot, fault) ==
    IF fault # "none" THEN Returned("Err", fault, transaction_dropped(before, before))
    ELSE Returned("Ok", "none", Tables(dao_rollback(before.txos, slot),
                                       rollback_datums(before.datums, slot)))

\* SqliteSundaeV3Dao::prune_txos
prune_txos(before, min_height, fault) ==
    IF fault # "none" THEN Returned("Err", fault, transaction_dropped(before, before))
    ELSE Returned("Ok", "none",
                  Tables(dao_prune_txos(before.txos, min_height), before.datums))

\* the created TXOs of a batch: each with the slot of the batch as created_slot
CreatedChoices(slot) ==
    {[i \in 1..Len(ids) |->
        [txo_id |-> ids[i], txo_type |-> "order", created_slot |-> slot, txo |-> ids[i]]] :
     ids \in {<< >>, <<1>>, <<MaxTxos>>, <<1, MaxTxos>>}}

\* the batches of the block at `slot`: the created TXOs, no spent key or key
\* 1, and no datum or datum 1
ChangesOf(slot) ==
    {[slot |-> slot, height |-> slot, created_txos |-> created, spent_txos |-> spent,
      metadata_datums |-> metadata_datums] :
        created \in CreatedChoices(slot),
        spent \in {<< >>, <<1>>},
        metadata_datums \in {<< >>, <<[hash |-> 1, datum |-> 1, created_slot |-> slot]>>}}

\* the statement of apply_tx_changes that fails, if any, among those it runs
Faults(changes) ==
    {"none", "begin", "commit"}
      \cup (IF changes.created_txos # << >> THEN {"insert"} ELSE {})
      \cup (IF changes.spent_txos # << >> THEN {"update"} ELSE {})
      \cup (IF changes.metadata_datums # << >> THEN {"upsert"} ELSE {})

\* the slots of the rows and of their stamps
StoredSlots ==
    {sundae_v3_txos[id].created_slot : id \in DOMAIN sundae_v3_txos}
      \cup {sundae_v3_txos[id].spent_slot : id \in DOMAIN sundae_v3_txos}
      \cup {sundae_datums[hash].created_slot : hash \in DOMAIN sundae_datums}

\* blocks are applied in chain order: none below a slot already stored
NextSlots == {slot \in Slots : \A stored \in StoredSlots : stored <= slot}

\* a call that returned: the tables it leaves and its record
DaoCall(op, changes, arg, returned) ==
    /\ calls' = calls + 1
    /\ sundae_v3_txos' = returned.tables.txos
    /\ sundae_datums' = returned.tables.datums
    /\ pruned_txos' =
          IF op = "prune_txos"
          THEN pruned_txos
                 \cup {[txo_id |-> id, created_slot |-> sundae_v3_txos[id].created_slot,
                        spent_slot |-> sundae_v3_txos[id].spent_slot] :
                       id \in DOMAIN sundae_v3_txos \ DOMAIN returned.tables.txos}
          ELSE {row \in pruned_txos : row.txo_id \notin DOMAIN returned.tables.txos}
    /\ persisted_datums' =
          IF returned.ret # "Ok" THEN persisted_datums
          ELSE IF op = "apply_tx_changes"
          THEN persisted_datums
                 \cup {[hash |-> changes.metadata_datums[i].hash,
                        datum |-> changes.metadata_datums[i].datum,
                        slot |-> changes.metadata_datums[i].created_slot] :
                       i \in 1..Len(changes.metadata_datums)}
          ELSE IF op = "rollback"
          THEN {persisted \in persisted_datums : persisted.slot <= arg}
          ELSE persisted_datums
    /\ dlast' = [op |-> op, ret |-> returned.ret, changes |-> changes, arg |-> arg,
                 fault |-> returned.failed, pre_txos |-> sundae_v3_txos,
                 pre_datums |-> sundae_datums]
    /\ UNCHANGED daoRest

\* dao.apply_tx_changes(changes)
ApplyTxChanges ==
    /\ calls < MaxCalls
    /\ \E slot \in NextSlots :
       \E changes \in ChangesOf(slot) :
       \E fault \in Faults(changes) :
            DaoCall("apply_tx_changes", changes, 0,
                    apply_tx_changes(Tables(sundae_v3_txos, sundae_datums), changes, fault))

\* dao.rollback(slot)
Rollback ==
    /\ calls < MaxCalls
    /\ \E slot \in Slots, fault \in {"none", "begin"} :
        DaoCall("rollback", NoChanges, slot,
                rollback(Tables(sundae_v3_txos, sundae_datums), slot, fault))

\* dao.prune_txos(min_height)
PruneTxos ==
    /\ calls < MaxCalls
    /\ \E min_height \in Heights, fault \in {"none", "begin"} :
        DaoCall("prune_txos", NoChanges, min_height,
                prune_txos(Tables(sundae_v3_txos, sundae_datums), min_height, fault))

InitDao ==
    /\ HistNew
    /\ BuilderIdle
    /\ ValueIdle
    /\ ValidationIdle
    /\ IndexerNew
    /\ LogNew
    /\ CursorNew
    /\ LockIdle
    /\ ScooperIdle
    /\ DaoNew

NextDao == ApplyTxChanges \/ Rollback \/ PruneTxos

SpecDao == InitDao /\ [][NextDao]_vars

(***************************************************************************)
(* Claims about SqliteSundaeV3Dao                                          *)
(***************************************************************************)
\* the last call was apply_tx_changes
Applied == dlast.op = "apply_tx_changes"

\* the row of sundae_v3_txos a created TXO is stored as
StoredAs(created) ==
    [txo_type |-> created.txo_type, created_slot |-> created.created_slot,
     txo |-> created.txo]

\* what a row of sundae_v3_txos says of the TXO, without its stamps
Content(row) ==
    [txo_type |-> row.txo_type, created_slot |-> row.created_slot, txo |-> row.txo]

\* C26: apply_tx_changes is atomic: when it fails, the stored TXOs and datums
\* are what they were before the call; when it returns Ok, every insert, every
\* spent-stamp and every datum upsert of the batch is stored
C26_ApplyAtomic ==
    Applied =>
        /\ dlast.ret = "Err" =>
              /\ sundae_v3_txos = dlast.pre_txos
              /\ sundae_datums = dlast.pre_datums
        /\ dlast.ret = "Ok" =>
              /\ \A i \in 1..Len(dlast.changes.created_txos) :
                    LET created == dlast.changes.created_txos[i] IN
                    /\ created.txo_id \in DOMAIN sundae_v3_txos
                    /\ Content(sundae_v3_txos[created.txo_id]) = StoredAs(created)
              /\ \A i \in 1..Len(dlast.changes.spent_txos) :
                    LET id == dlast.changes.spent_txos[i] IN
                    id \in DOMAIN sundae_v3_txos =>
                        /\ sundae_v3_txos[id].spent_slot = dlast.changes.slot
                        /\ sundae_v3_txos[id].spent_height = dlast.changes.height
              /\ \A i \in 1..Len(dlast.changes.metadata_datums) :
                    LET datum == dlast.changes.metadata_datums[i] IN
                    /\ datum.hash \in DOMAIN sundae_datums
                    /\ sundae_datums[datum.hash].created_slot = datum.created_slot

\* a batch with an insert, a stamp of a stored row and a datum failed at the
\* commit, after all its statements ran
C26_Witness ==
    /\ Applied
    /\ dlast.ret = "Err"
    /\ dlast.fault = "commit"
    /\ dlast.changes.created_txos # << >>
    /\ \E i \in 1..Len(dlast.changes.spent_txos) :
          dlast.changes.spent_txos[i] \in DOMAIN dlast.pre_txos
    /\ dlast.changes.metadata_datums # << >>

\* a batch with an insert, a stamp of a stored row and a datum was stored
C26_WitnessOk ==
    /\ Applied
    /\ dlast.ret = "Ok"
    /\ dlast.changes.created_txos # << >>
    /\ \E i \in 1..Len(dlast.changes.spent_txos) :
          dlast.changes.spent_txos[i] \in DOMAIN dlast.pre_txos
    /\ dlast.changes.metadata_datums # << >>

\* the last call applied created TXOs that were all stored before, as they
\* are, and no statement met an I/O error
Reapplied ==
    /\ Applied
    /\ dlast.changes.created_txos # << >>
    /\ dlast.fault \notin {"begin", "insert", "update", "upsert", "commit"}
    /\ ~\E i, j \in 1..Len(dlast.changes.created_txos) :
          i < j /\ dlast.changes.created_txos[i].txo_id = dlast.changes.created_txos[j].txo_id
    /\ \A i \in 1..Len(dlast.changes.created_txos) :
          LET created == dlast.changes.created_txos[i] IN
          /\ created.txo_id \in DOMAIN dlast.pre_txos
          /\ Content(dlast.pre_txos[created.txo_id]) = StoredAs(created)

\* the last call stamped a row that carried another stamp
Restamped(id) ==
    /\ Applied
    /\ dlast.ret = "Ok"
    /\ id \in DOMAIN dlast.pre_txos
    /\ id \in DOMAIN sundae_v3_txos
    /\ \E i \in 1..Len(dlast.changes.spent_txos) : dlast.changes.spent_txos[i] = id
    /\ dlast.pre_txos[id].spent_slot \notin {Null, dlast.changes.slot}

\* a spent-stamp applied again with another slot and height overwrites the
\* earlier stamp
C27_LastStampWins ==
    \A id \in TxoIds :
        Restamped(id) =>
            /\ sundae_v3_txos[id].spent_slot = dlast.changes.slot
            /\ sundae_v3_txos[id].spent_height = dlast.changes.height

\* C27: apply_tx_changes is idempotent on inserts keyed by (tx_id, txo_index):
\* applying the same created TXOs a second time succeeds and leaves the stored
\* TXOs as they were after the first application, and a spent-stamp applied
\* again with another slot and height overwrites the earlier stamp
C27_IdempotentInserts ==
    /\ Reapplied =>
          /\ dlast.ret = "Ok"
          /\ \A i \in 1..Len(dlast.changes.created_txos) :
                LET id == dlast.changes.created_txos[i].txo_id IN
                /\ id \in DOMAIN sundae_v3_txos
                /\ Content(sundae_v3_txos[id]) = Content(dlast.pre_txos[id])
    /\ C27_LastStampWins

\* stored TXOs were applied a second time
C27_Reapplied == Reapplied

\* a stamp was overwritten by a later one
C27_Restamped == \E id \in TxoIds : Restamped(id)

\* the last call was a rollback that returned Ok
DaoRolledBack == dlast.op = "rollback" /\ dlast.ret = "Ok"

\* the rows stored before the last call that were created at or before slot
\* and not spent at or before it
LiveAt(slot) ==
    {id \in DOMAIN dlast.pre_txos :
        /\ dlast.pre_txos[id].created_slot <= slot
        /\ \/ dlast.pre_txos[id].spent_slot = Null
           \/ dlast.pre_txos[id].spent_slot > slot}

\* C28: after dao.rollback(s), load_txos returns exactly the stored TXOs with
\* created_slot <= s that were unspent at slot s, each once and as it was
\* stored, in (created_slot, tx_id, txo_index) order
C28_RollbackThenLoad ==
    DaoRolledBack =>
        LET loaded == load_txos(sundae_v3_txos) IN
        /\ {loaded[i].txo_id : i \in 1..Len(loaded)} = LiveAt(dlast.arg)
        /\ Len(loaded) = Cardinality(LiveAt(dlast.arg))
        /\ \A i \in 1..Len(loaded) :
              /\ loaded[i].txo_type = dlast.pre_txos[loaded[i].txo_id].txo_type
              /\ loaded[i].created_slot = dlast.pre_txos[loaded[i].txo_id].created_slot
              /\ loaded[i].txo = dlast.pre_txos[loaded[i].txo_id].txo
        /\ \A i, j \in 1..Len(loaded) :
              i < j =>
                \/ loaded[i].created_slot < loaded[j].created_slot
                \/ /\ loaded[i].created_slot = loaded[j].created_slot
                   /\ loaded[i].txo_id < loaded[j].txo_id

\* a rollback deleted a TXO created after the slot and made a TXO spent after
\* the slot loadable again
C28_Witness ==
    /\ DaoRolledBack
    /\ \E id \in DOMAIN dlast.pre_txos : dlast.pre_txos[id].created_slot > dlast.arg
    /\ \E id \in LiveAt(dlast.arg) : dlast.pre_txos[id].spent_slot # Null
    /\ load_txos(sundae_v3_txos) # << >>

\* a rollback left two TXOs to load, the one with the higher key created first
C28_WitnessOrder ==
    /\ DaoRolledBack
    /\ Len(load_txos(sundae_v3_txos)) = 2
    /\ load_txos(sundae_v3_txos)[1].txo_id > load_txos(sundae_v3_txos)[2].txo_id

\* the last call was a prune_txos that returned Ok
DaoPruned == dlast.op = "prune_txos" /\ dlast.ret = "Ok"

\* C29: prune_txos(m) deletes exactly the TXOs stamped with spent_height < m
\* and never an unspent one, and a pruned TXO is not restored by a later
\* rollback, even one to a slot before its spend
C29_PruneTxos ==
    /\ DaoPruned =>
          /\ DOMAIN sundae_v3_txos =
                {id \in DOMAIN dlast.pre_txos :
                    \/ dlast.pre_txos[id].spent_height = Null
                    \/ dlast.pre_txos[id].spent_height >= dlast.arg}
          /\ \A id \in DOMAIN sundae_v3_txos : sundae_v3_txos[id] = dlast.pre_txos[id]
    /\ dlast.op = "rollback" =>
          \A row \in pruned_txos : row.txo_id \notin DOMAIN sundae_v3_txos

\* a TXO was pruned, and a later rollback to a slot where it was created and
\* not yet spent did not bring it back
C29_Witness ==
    /\ DaoRolledBack
    /\ \E row \in pruned_txos : row.created_slot <= dlast.arg /\ dlast.arg < row.spent_slot

\* prune_txos deleted a spent TXO and kept an unspent one and a spent one
C29_WitnessPrune ==
    /\ DaoPruned
    /\ DOMAIN sundae_v3_txos # DOMAIN dlast.pre_txos
    /\ \E id \in DOMAIN sundae_v3_txos : sundae_v3_txos[id].spent_height = Null

(***************************************************************************)
(* SqliteCursorDaoImpl: the cursor store                                   *)
(***************************************************************************)
\* the ids of the indexers whose cursors are stored
CursorIds == {"abc", "def"}

\* Point::Origin
Origin == [variant |-> "Origin", slot |-> 0, hash |-> 0]

\* Point::Specific { hash, slot }
Specific(slot, hash) == [variant |-> "Specific", slot |-> slot, hash |-> hash]

\* the cursors handed to save: CursorEntry { tip, halted }, the hash is Hash::default()
CursorEntries ==
    {[tip |-> tip, halted |-> halted] :
        tip \in {Origin} \cup {Specific(slot, 0) : slot \in {1, MaxSlot}},
        halted \in BOOLEAN}

\* the mappings handed to save: HashMap<String, CursorEntry>
CursorMaps == UNION {[ids -> CursorEntries] : ids \in SUBSET CursorIds}

\* serde_json::to_vec(cursor): the variant of the tip, its fields, then halted
to_vec(cursor) ==
    IF cursor.tip.variant = "Origin"
    THEN <<0, IF cursor.halted THEN 1 ELSE 0>>
    ELSE <<1, cursor.tip.slot, cursor.tip.hash, IF cursor.halted THEN 1 ELSE 0>>

\* serde_json::from_slice accepts the bytes
well_formed(bytes) ==
    \/ Len(bytes) = 2 /\ bytes[1] = 0 /\ bytes[2] \in {0, 1}
    \/ Len(bytes) = 4 /\ bytes[1] = 1 /\ bytes[4] \in {0, 1}

\* serde_json::from_slice(&bytes) of well-formed bytes
from_slice(bytes) ==
    IF bytes[1] = 0
    THEN [tip |-> Origin, halted |-> bytes[2] = 1]
    ELSE [tip |-> Specific(bytes[2], bytes[3]), halted |-> bytes[4] = 1]

\* Result<(), CursorSaveError> of save and the table it leaves
Saved(ret, failed, table) == [ret |-> ret, failed |-> failed, table |-> table]

\* mutant: the rows stored before stay unless they are written again
delete_none(table) == table

\* DELETE FROM acropolis_cursors;
delete_all(table) == NoCursors

\* the loop over the entries: save_entry writes to_vec(cursor) under id; an
\* entry whose save_entry fails is pushed to failed and the loop goes on.
\* The table was emptied in the same transaction, so no id is stored twice
save_entries(table, entries, failing) ==
    [id \in DOMAIN table \cup (DOMAIN entries \ failing) |->
        IF id \in DOMAIN entries \ failing THEN to_vec(entries[id]) ELSE table[id]]

\* SqliteCursorDaoImpl::save
save(before, entries, fault, failing) ==
    IF fault = "begin" THEN Saved("Err", DOMAIN entries, before)
    ELSE IF fault = "delete"
    THEN Saved("Err", DOMAIN entries, transaction_dropped(before, before))
    ELSE IF fault = "commit"
    THEN Saved("Err", DOMAIN entries,
               transaction_dropped(before, save_entries(delete_all(before), entries, failing)))
    ELSE IF failing = {}
    THEN Saved("Ok", {}, save_entries(delete_all(before), entries, failing))
    ELSE Saved("Err", failing, save_entries(delete_all(before), entries, failing))

\* SqliteCursorDaoImpl::load
cursor_load(table, fault) ==
    IF fault = "query" \/ \E id \in DOMAIN table : ~well_formed(table[id])
    THEN [done |-> TRUE, ret |-> "Err", entries |-> NoCursors]
    ELSE [done |-> TRUE, ret |-> "Ok",
          entries |-> [id \in DOMAIN table |-> from_slice(table[id])]]

\* a call of save: with entries, a sqlx call that fails or not, and the entries
\* whose save_entry fails
CursorSave ==
    /\ cloaded' = NoLoad
    /\ \E entries \in CursorMaps, fault \in {"none", "begin", "delete", "commit"} :
       \E failing \in IF fault = "none" THEN SUBSET DOMAIN entries ELSE {{}} :
          LET saved == save(acropolis_cursors, entries, fault, failing) IN
          /\ acropolis_cursors' = saved.table
          /\ csaved' = [op |-> "save", ret |-> saved.ret, entries |-> entries,
                        failed |-> saved.failed,
                        removed |-> DOMAIN acropolis_cursors \ DOMAIN entries,
                        kept |-> saved.table = acropolis_cursors]
    /\ UNCHANGED cursorRest

\* a call of load
CursorLoad ==
    /\ \E fault \in {"none", "query"} :
          cloaded' = cursor_load(acropolis_cursors, fault)
    /\ UNCHANGED <<acropolis_cursors, csaved>>
    /\ UNCHANGED cursorRest

InitCursor ==
    /\ HistNew
    /\ BuilderIdle
    /\ ValueIdle
    /\ ValidationIdle
    /\ IndexerNew
    /\ LogNew
    /\ LockIdle
    /\ ScooperIdle
    /\ DaoNew
    /\ CursorNew

NextCursor == CursorSave \/ CursorLoad

SpecCursor == InitCursor /\ [][NextCursor]_vars

\* save returned Ok and load, called after it, returned Ok
SavedThenLoaded ==
    /\ csaved.op = "save"
    /\ csaved.ret = "Ok"
    /\ cloaded.done
    /\ cloaded.ret = "Ok"

\* C30: cursor save is a total overwrite: after save(x) returned Ok, load()
\* returns exactly the mapping x: the ids stored earlier and absent from x are
\* gone, and after save of the empty mapping load() is empty
C30_SaveOverwrites == SavedThenLoaded => cloaded.entries = csaved.entries

\* a save that kept one id, with another cursor, and dropped another id was
\* followed by a load
C30_Witness ==
    /\ SavedThenLoaded
    /\ csaved.removed # {}
    /\ csaved.entries # NoCursors
    /\ \E id \in DOMAIN csaved.entries : csaved.entries[id].tip.variant = "Specific"

\* a save of the empty mapping over stored cursors was followed by a load
C30_WitnessEmpty ==
    /\ SavedThenLoaded
    /\ csaved.removed # {}
    /\ csaved.entries = NoCursors

\* the last call of save returned a CursorSaveError
SaveFailed == csaved.op = "save" /\ csaved.ret = "Err"

\* the table holds exactly the mapping handed to the last save
HoldsSaved ==
    acropolis_cursors = [id \in DOMAIN csaved.entries |-> to_vec(csaved.entries[id])]

\* C31: cursor save is atomic: whenever save(x) returns a CursorSaveError,
\* also when only some entries could not be written, the stored mapping is
\* entirely the previous one or entirely x, never a mixture
C31_SaveAtomic == SaveFailed => csaved.kept \/ HoldsSaved

\* a save failed on some of its entries only
C31_PartialFailure ==
    /\ SaveFailed
    /\ csaved.failed # {}
    /\ csaved.failed # DOMAIN csaved.entries

\* a save that failed at begin, at the DELETE or at the commit leaves the
\* stored mapping as it was
C31_WholeFailureKeeps ==
    (SaveFailed /\ csaved.failed = DOMAIN csaved.entries /\ acropolis_cursors # NoCursors)
        => csaved.kept

(***************************************************************************)
(* The scoop log over the snapshots the indexer publishes                  *)
(***************************************************************************)
\* a pool of RBERRY and SBERRY with the reserves given
BerryPool(reserve_a, reserve_b) ==
    SundaeV3Pool(PoolOutput(1, 0).datum, reserve_a, reserve_b)

\* a pool of ada and RBERRY
AdaPool ==
    SundaeV3Pool([PoolOutput(2, 0).datum EXCEPT !.assets = <<ADA_ASSET_CLASS, RBERRY>>],
                 1, 1)

\* the pools of a snapshot: the pool of berries, in or out of the range of the
\* swap or emptied, with or without the pool of ada
PoolChoices ==
    {[ident \in idents |-> IF ident = 1 THEN berries ELSE AdaPool] :
        idents \in SUBSET {1, 2},
        berries \in {BerryPool(1, 2), BerryPool(2, 1), BerryPool(3, 1), BerryPool(1, 0)}}

\* the order created as output ix of a transaction: an input names one order
\* for good, so a snapshot holds it as it was created or not at all
SwapOrder ==
    [input |-> TransactionInput(1, 0), slot |-> 1, value |-> OrderOutput(1).value,
     datum |-> [OrderOutput(1).datum EXCEPT !.action.taken = SingletonValue(SBERRY, 2)]]

DepositOrder ==
    [input |-> TransactionInput(1, 1), slot |-> 1, value |-> DepositOutput(1).value,
     datum |-> DepositOutput(1).datum]

OrderChoices == {<< >>, <<SwapOrder>>, <<DepositOrder>>, <<SwapOrder, DepositOrder>>}

\* the snapshots handed to log_changes
Snapshots ==
    {[pools |-> pools, orders |-> orders, settings |-> << >>] :
        pools \in PoolChoices, orders \in OrderChoices}

\* a pass of Scooper::run: log_changes over the snapshot borrowed
LogPass ==
    /\ \E state \in Snapshots : log_changes(state)
    /\ UNCHANGED <<histVars, builderVars, valueVars, validationVars, indexerVars, lockVars,
                   scooperVars, daoVars, cursorVars>>

InitScoopLog ==
    /\ HistNew
    /\ BuilderIdle
    /\ ValueIdle
    /\ ValidationIdle
    /\ IndexerNew
    /\ LockIdle
    /\ ScooperIdle
    /\ DaoNew
    /\ CursorNew
    /\ LogNew

NextScoopLog == LogPass

SpecScoopLog == InitScoopLog /\ [][NextScoopLog]_vars

\* the actions the last pass logged for an order or a pool
ActionsFor(updates, key) ==
    {updates[i].action : i \in {j \in 1..Len(updates) : updates[j].key = key}}

\* the inputs of the orders whose validity was Invalid(PoolErrors) before the
\* last pass and is so after it
StillPoolErrors ==
    {input \in DOMAIN logged.pre_orders \cap DOMAIN scooper_orders :
        /\ logged.pre_orders[input].reason = "PoolErrors"
        /\ scooper_orders[input].reason = "PoolErrors"}

\* two error maps differ in something other than the pool_price of an
\* OutOfRange: in the pools they name, in the variant of an error, or in a
\* swap_price
DiffersBeyondPoolPrice(old_errors, new_errors) ==
    \/ DOMAIN old_errors # DOMAIN new_errors
    \/ \E ident \in DOMAIN old_errors \cap DOMAIN new_errors :
          \/ old_errors[ident].error # new_errors[ident].error
          \/ old_errors[ident].swap_price # new_errors[ident].swap_price

\* C32: for an order Invalid(PoolErrors) both before and after a pass, the
\* scoop log writes a Changed event exactly when the two error maps differ in
\* something other than the pool_price of an OutOfRange error
C32_ChangedBeyondPoolPrice ==
    \A input \in StillPoolErrors :
        ("Changed" \in ActionsFor(logged.order_updates, input))
            <=> DiffersBeyondPoolPrice(logged.pre_orders[input].errors,
                                       scooper_orders[input].errors)

\* an order kept the same PoolErrors over a pass
C32_SameErrors ==
    \E input \in StillPoolErrors :
        logged.pre_orders[input].errors = scooper_orders[input].errors

\* the error of an order for its only failing pool changed its variant
C32_OtherVariant ==
    \E input \in StillPoolErrors :
        /\ DOMAIN logged.pre_orders[input].errors = DOMAIN scooper_orders[input].errors
        /\ \A ident \in DOMAIN scooper_orders[input].errors :
              logged.pre_orders[input].errors[ident].error
                  # scooper_orders[input].errors[ident].error

\* only the pool_price of an OutOfRange error moved
C32_PoolPriceMoved ==
    \E input \in StillPoolErrors :
        /\ ~DiffersBeyondPoolPrice(logged.pre_orders[input].errors,
                                   scooper_orders[input].errors)
        /\ logged.pre_orders[input].errors # scooper_orders[input].errors

\* the updates are the diff of now against old: Added for the keys that are
\* new, Removed for those that are gone, Changed only for keys in both whose
\* entries differ, and nothing else
ExactDiff(updates, old, now) ==
    /\ \A key \in DOMAIN now \ DOMAIN old : ActionsFor(updates, key) = {"Added"}
    /\ \A key \in DOMAIN old \ DOMAIN now : ActionsFor(updates, key) = {"Removed"}
    /\ \A key \in DOMAIN old \cap DOMAIN now :
          /\ ActionsFor(updates, key) \subseteq {"Changed"}
          /\ ActionsFor(updates, key) # {} => old[key] # now[key]
    /\ \A i \in 1..Len(updates) : updates[i].key \in DOMAIN old \cup DOMAIN now
    /\ \A i, j \in 1..Len(updates) : updates[i].key = updates[j].key => i = j

\* C33: each pass of the scoop log writes the exact diff against what was
\* reported before, for orders and for pools, so a second pass over the same
\* snapshot writes no event
C33_ExactDiff ==
    logged.passes > 0 =>
        /\ ExactDiff(logged.order_updates, logged.pre_orders, scooper_orders)
        /\ ExactDiff(logged.pool_updates, logged.pre_pools, scooper_pools)
        /\ logged.again => logged.order_updates = << >> /\ logged.pool_updates = << >>

\* the pool half of C33 alone: log_pools writes the exact diff and nothing
\* on a second pass over the same snapshot
C33_PoolsExactDiff ==
    logged.passes > 0 =>
        /\ ExactDiff(logged.pool_updates, logged.pre_pools, scooper_pools)
        /\ logged.again => logged.pool_updates = << >>

\* a snapshot with pools and orders was logged twice in a row
C33_SamePassTwice ==
    /\ logged.again
    /\ logged.state.orders # << >>
    /\ DOMAIN logged.state.pools # {}

(***************************************************************************)
(* Claims about the spends and the outputs of a transaction                *)
(***************************************************************************)
\* the snapshot update_slot hands to the last transaction: that of its slot,
\* cloned from the latest one
SnapshotBefore == history_latest(ilast.pre)

\* the snapshot of the slot of the last transaction
SnapshotAfter == history[ilast.slot]

\* the inputs of the last transaction that the snapshot before it tracked
SpentTracked == TrackedInputs(SnapshotBefore) \cap ilast.tx.inputs

\* the orders of the snapshot before the last transaction that it did not spend
Surviving == SelectSeq(SnapshotBefore.orders, LAMBDA o : o.input \notin ilast.tx.inputs)

\* the redeemer of the spend of `input` in the last transaction, as one of kinds
RedeemerOf(input, kinds) ==
    parse_redeemer(ilast.tx, binary_search(sort(ilast.tx.inputs), input), kinds)

\* C34: after a transaction is reduced, no pool, order or settings whose input
\* is among its inputs remains in the snapshot of the slot, whatever the
\* redeemer; each such input is staged exactly once in spent_txos; and every
\* record whose input is not spent is unchanged, the surviving orders in their
\* previous relative order
C34_SpentRemoved ==
    (TxReduced /\ ilast.slot \in DOMAIN history) =>
        /\ TrackedInputs(SnapshotAfter) \cap ilast.tx.inputs = {}
        /\ {ilast.changes.spent_txos[i] : i \in 1..Len(ilast.changes.spent_txos)} = SpentTracked
        /\ Len(ilast.changes.spent_txos) = Cardinality(SpentTracked)
        /\ \A ident \in DOMAIN SnapshotBefore.pools :
              SnapshotBefore.pools[ident].input \notin ilast.tx.inputs =>
                  /\ ident \in DOMAIN SnapshotAfter.pools
                  /\ SnapshotAfter.pools[ident] = SnapshotBefore.pools[ident]
        /\ Len(Surviving) <= Len(SnapshotAfter.orders)
        /\ SubSeq(SnapshotAfter.orders, 1, Len(Surviving)) = Surviving
        /\ (SnapshotBefore.settings # << >>
              /\ SnapshotBefore.settings[1].input \notin ilast.tx.inputs)
              => SnapshotAfter.settings = SnapshotBefore.settings

\* a transaction spent a pool without a valid redeemer and an order, and left
\* another order and the settings alone
C34_Witness ==
    /\ TxReduced
    /\ ilast.slot \in DOMAIN history
    /\ \E ident \in DOMAIN SnapshotBefore.pools :
          /\ SnapshotBefore.pools[ident].input \in ilast.tx.inputs
          /\ RedeemerOf(SnapshotBefore.pools[ident].input, PoolRedeemer).kind = "None"
    /\ Len(Surviving) > 0
    /\ Len(Surviving) < Len(SnapshotBefore.orders)
    /\ SnapshotBefore.settings # << >>
    /\ SnapshotAfter.settings = SnapshotBefore.settings

\* a transaction spent a pool with a PoolScoop redeemer while no settings
\* were known, and an order with a Cancel redeemer
C34_WitnessNoSettings ==
    /\ TxReduced
    /\ ilast.slot \in DOMAIN history
    /\ SnapshotBefore.settings = << >>
    /\ \E ident \in DOMAIN SnapshotBefore.pools :
          /\ SnapshotBefore.pools[ident].input \in ilast.tx.inputs
          /\ RedeemerOf(SnapshotBefore.pools[ident].input, PoolRedeemer).kind = "PoolScoop"
    /\ \E i \in 1..Len(SnapshotBefore.orders) :
          /\ SnapshotBefore.orders[i].input \in ilast.tx.inputs
          /\ RedeemerOf(SnapshotBefore.orders[i].input, OrderRedeemer).kind = "Cancel"

\* the outputs of the last transaction, each with the input it creates
CreatedByLast == Created(ilast.tx, txs)

\* the output indices at which the last transaction created an output of `kind`
CreatedAt(kind) == {i \in 1..Len(ilast.tx.outputs) : ilast.tx.outputs[i].kind = kind}

\* the replay of the scoop the last transaction scheduled, done over again
\* from the pool, the settings and the orders of the snapshot before it
ReplayedFromBefore ==
    replay(ScoopBuilder_new(SnapshotBefore.pools[ilast.executed[1].ident],
                            SnapshotBefore.settings[1].datum, Len(ScoopOrders)),
           ScoopOrders, sort(ilast.tx.inputs), SnapshotBefore.orders, << >>)

\* C35: the outputs of a transaction are inserted only after the spends and
\* the replay of the scoop were evaluated against the records from before the
\* transaction: the builder starts from the old pool and replays the old
\* orders; afterwards the snapshot maps the ident of each created pool to the
\* output observed on chain, even where the builder came to another value or
\* circulating_lp; the new orders follow all surviving orders in output
\* order; new settings replace the old
C35_OutputsAfterSpends ==
    (TxReduced /\ ilast.slot \in DOMAIN history) =>
        /\ Scooped =>
              /\ ilast.executed[1].ident \in DOMAIN SnapshotBefore.pools
              /\ SnapshotBefore.pools[ilast.executed[1].ident].input \in ilast.tx.inputs
              /\ ScoopLog = ReplayedFromBefore.log
        /\ \A i \in CreatedAt("pool") :
              LET ident == ilast.tx.outputs[i].datum.ident IN
              (\A j \in CreatedAt("pool") : ilast.tx.outputs[j].datum.ident = ident => j <= i)
                  => /\ ident \in DOMAIN SnapshotAfter.pools
                     /\ SnapshotAfter.pools[ident] = NewPool(CreatedByLast[i], ilast.slot)
        /\ Len(SnapshotAfter.orders) = Len(Surviving) + Cardinality(CreatedAt("order"))
        /\ SubSeq(SnapshotAfter.orders, 1, Len(Surviving)) = Surviving
        /\ \A i \in CreatedAt("order") :
              SnapshotAfter.orders[Len(Surviving)
                                     + Cardinality({j \in CreatedAt("order") : j <= i})]
                  = NewOrder(CreatedByLast[i], ilast.slot)
        /\ \A i \in CreatedAt("settings") :
              (\A j \in CreatedAt("settings") : j <= i)
                  => SnapshotAfter.settings = <<NewSettings(CreatedByLast[i], ilast.slot)>>

\* a scoop applied an old order to the old pool and came to another pool than
\* the one the transaction created, which the snapshot holds as observed,
\* with two new orders after an order that survived
C35_Witness ==
    /\ TxReduced
    /\ ilast.slot \in DOMAIN history
    /\ Scooped
    /\ \E i \in 1..Len(ScoopLog) : ScoopLog[i].res = "Ok"
    /\ ilast.executed[1].observed = "incorrect"
    /\ ReplayedFromBefore.builder.value # SnapshotAfter.pools[ilast.executed[1].ident].value
    /\ Len(Surviving) > 0
    /\ Cardinality(CreatedAt("order")) = 2

\* a transaction spent the settings and created them anew
C35_WitnessSettings ==
    /\ TxReduced
    /\ ilast.slot \in DOMAIN history
    /\ SnapshotBefore.settings # << >>
    /\ CreatedAt("settings") # {}
    /\ SnapshotAfter.settings # SnapshotBefore.settings

(***************************************************************************)
(* Claims about pruning                                                    *)
(***************************************************************************)
\* the last transaction got as far as prune_history, which removed a snapshot
HistoryPruned ==
    /\ TxReduced
    /\ ~StorageFailed("apply_tx_changes")
    /\ Cardinality(DOMAIN ilast.pre \cup {ilast.slot}) > rollback_limit

\* the last transaction called dao.prune_txos
PruneTxosCalled ==
    \E i \in 1..Len(ilast.trace) : ilast.trace[i] = "prune_txos"

\* the table after the last transaction applied its changes, if it had any
AppliedByLast ==
    IF is_empty(ilast.changes) THEN ilast.pre_dao
    ELSE dao_apply_tx_changes(ilast.pre_dao, ilast.changes)

\* C36: handle_onchain_tx_bytes for a block of height h calls dao.prune_txos,
\* with min_height = h - rollback_limit, exactly when prune_history removed a
\* snapshot and h > rollback_limit
C36_PruneTxosWhenAbove ==
    (TxReduced /\ ~StorageFailed("apply_tx_changes")) =>
        /\ PruneTxosCalled <=> (HistoryPruned /\ ilast.changes.height > rollback_limit)
        /\ (PruneTxosCalled /\ ilast.ret = "Ok") =>
              dao = dao_prune_txos(AppliedByLast, ilast.changes.height - rollback_limit)

\* what the code does: the call is made from h = rollback_limit on
C36_PruneTxosFromLimit ==
    (TxReduced /\ ~StorageFailed("apply_tx_changes")) =>
        /\ PruneTxosCalled <=> (HistoryPruned /\ ilast.changes.height >= rollback_limit)
        /\ (PruneTxosCalled /\ ilast.ret = "Ok") =>
              dao = dao_prune_txos(AppliedByLast, ilast.changes.height - rollback_limit)

\* a snapshot was pruned by a transaction of the block of height rollback_limit
C36_PrunedAtLimit ==
    /\ HistoryPruned
    /\ ilast.changes.height = rollback_limit
    /\ PruneTxosCalled

\* a snapshot was pruned, or none was, by a transaction of a block above
\* rollback_limit
C36_PrunedAbove == HistoryPruned /\ ilast.changes.height > rollback_limit /\ ilast.ret = "Ok"

C36_NotPruned == TxReduced /\ ~HistoryPruned /\ ilast.changes.height > rollback_limit

(***************************************************************************)
(* Claims about the arithmetic of ScoopBuilder::apply_order                *)
(***************************************************************************)
\* C37: apply_order is total: for every order and every builder, also one
\* whose pool has a zero reserve, circulating_lp = 0 or a fee of 10_000 per
\* 10_000, it returns Ok or an ApplyOrderError and never aborts on a division
\* by zero
C37_ApplyOrderTotal ==
    blast.res \in {"none", "Ok"} \cup ApplyOrderError

\* the calls of apply_order that abort: a withdrawal from a pool without LP
\* tokens, a deposit into a pool with an empty reserve, and a swap
C37_WithdrawalAborts ==
    /\ blast.res = "Panic"
    /\ blast.order.action = "Withdrawal"
    /\ blast.pre.pool.circulating_lp = 0

C37_DepositAborts ==
    /\ blast.res = "Panic"
    /\ blast.order.action = "Deposit"
    /\ 0 \in {pool_values(blast.pre)[1], pool_values(blast.pre)[2]}

C37_SwapAborts ==
    /\ blast.res = "Panic"
    /\ blast.order.action = "Swap"

\* the reserves apply_order found and left at the last swap: what the pool
\* gives out of and what it takes into, net of protocol fees
SwapReserves ==
    LET a_to_b == blast.order.given.asset_class = blast.pre.pool.assets[1] IN
    [gives_before |-> IF a_to_b THEN pool_values(blast.pre)[1] ELSE pool_values(blast.pre)[2],
     takes_before |-> IF a_to_b THEN pool_values(blast.pre)[2] ELSE pool_values(blast.pre)[1],
     gives_after |-> IF a_to_b THEN pool_values(builder)[1] ELSE pool_values(builder)[2],
     takes_after |-> IF a_to_b THEN pool_values(builder)[2] ELSE pool_values(builder)[1],
     fee_per_10k |-> IF a_to_b THEN blast.pre.pool.bid_fees_per_10_thousand
                     ELSE blast.pre.pool.ask_fees_per_10_thousand]

\* the last call applied a swap to a pool with positive reserves and a fee
\* between 0 and 10_000
SwapSucceeded ==
    /\ blast.res = "Ok"
    /\ blast.order.action = "Swap"
    /\ SwapReserves.gives_before > 0
    /\ SwapReserves.takes_before > 0
    /\ 0 <= SwapReserves.fee_per_10k
    /\ SwapReserves.fee_per_10k <= TEN_THOUSAND

\* C38: a swap that was applied never decreases the constant product of the
\* reserves net of protocol fees: (pool_gives + give) * (pool_takes - takes)
\* >= pool_gives * pool_takes, and both reserves stay strictly positive
C38_ConstantProduct ==
    SwapSucceeded =>
        /\ SwapReserves.gives_after * SwapReserves.takes_after
              >= SwapReserves.gives_before * SwapReserves.takes_before
        /\ SwapReserves.gives_after > 0
        /\ SwapReserves.takes_after > 0

\* the same for the swaps whose give is not negative
C38_ConstantProductGiving ==
    (SwapSucceeded /\ SwapReserves.gives_after >= SwapReserves.gives_before) =>
        /\ SwapReserves.gives_after * SwapReserves.takes_after
              >= SwapReserves.gives_before * SwapReserves.takes_before
        /\ SwapReserves.gives_after > 0
        /\ SwapReserves.takes_after > 0

\* a swap was applied that took something out of the pool
C38_Swapped ==
    /\ SwapSucceeded
    /\ SwapReserves.takes_after < SwapReserves.takes_before
    /\ SwapReserves.gives_after > SwapReserves.gives_before

\* a swap was applied that gave the pool less than nothing
C38_NegativeGive == SwapSucceeded /\ SwapReserves.gives_after < SwapReserves.gives_before

(***************************************************************************)
(* Claims about the metadata datums                                        *)
(***************************************************************************)
\* the hashes load_datums returns
LoadedHashes ==
    {load_datums(sundae_datums)[i].hash : i \in 1..Len(load_datums(sundae_datums))}

\* C39: after dao.rollback(s) every metadata datum that a transaction at a
\* slot <= s persisted is still returned by load_datums, also one whose hash
\* a transaction at a slot > s persisted again
C39_RollbackKeepsDatums ==
    DaoRolledBack =>
        \A persisted \in persisted_datums :
            persisted.slot <= dlast.arg => persisted.hash \in LoadedHashes

\* the same for the datums no later transaction persisted again
C39_RollbackKeepsOnce ==
    DaoRolledBack =>
        \A persisted \in persisted_datums :
            (/\ persisted.slot <= dlast.arg
             /\ persisted.hash \in DOMAIN dlast.pre_datums
             /\ dlast.pre_datums[persisted.hash].created_slot = persisted.slot)
                => persisted.hash \in LoadedHashes

\* a rollback behind the second of two transactions that persisted a datum
C39_PersistedAgain ==
    /\ DaoRolledBack
    /\ \E persisted \in persisted_datums :
          /\ persisted.slot <= dlast.arg
          /\ persisted.hash \in DOMAIN dlast.pre_datums
          /\ dlast.pre_datums[persisted.hash].created_slot > dlast.arg

\* a rollback that kept a datum and one that deleted a datum persisted later
C39_Kept == DaoRolledBack /\ LoadedHashes # {}

C39_Deleted ==
    /\ DaoRolledBack
    /\ persisted_datums = {}
    /\ DOMAIN dlast.pre_datums # {}
    /\ LoadedHashes = {}

(***************************************************************************)
(* Claims about the length of the history                                  *)
(***************************************************************************)
\* the last call was a handle_onchain_tx_bytes that returned Ok
TxHandled == ilast.op = "handle_onchain_tx_bytes" /\ ilast.ret = "Ok"

\* C40: after every handle_onchain_tx_bytes that returns Ok the history holds
\* at most rollback_limit snapshots, and, rollback_limit being at least 1, the
\* snapshot of the slot just processed is among them and is latest()
C40_HistoryBounded ==
    TxHandled =>
        /\ Cardinality(DOMAIN history) <= rollback_limit
        /\ rollback_limit >= 1 =>
              /\ ilast.slot \in DOMAIN history
              /\ \A slot \in DOMAIN history : slot <= ilast.slot
              /\ history_latest(history) = history[ilast.slot]

\* a transaction returned Ok after prune_history removed the oldest snapshot
\* of a full history
C40_Witness ==
    /\ TxHandled
    /\ Cardinality(DOMAIN ilast.pre) = rollback_limit
    /\ ilast.slot \notin DOMAIN ilast.pre
    /\ Cardinality(DOMAIN history) = rollback_limit
    /\ history[ilast.slot] # DefaultState

====
